---- MODULE Spec2Model ----
(***************************************************************************)
(* A model of the code-quick-refer extension: the HTML pretty-printer      *)
(* (src/src/htmlFormatter.ts) and the reference generator                  *)
(* (src/src/references.ts).  Text is modelled as TLA+ strings, read one    *)
(* character at a time with SubSeq; offsets are 0-based as in the source.  *)
(***************************************************************************)
EXTENDS Integers, Sequences, FiniteSets, TLC

VARIABLES
  \* ---- reference generation (generateReferencesCommand) ----
  editor,          \* the active editor: its file and its selection's anchor and active offsets
  strategyEntries, \* buildReferencesText: the entries the language strategy gave
  entries,         \* buildReferencesText: the entries handed to formatEntries
  clipboard,       \* the text on the clipboard
  refPc,           \* "ready" | "copied", "idle" while the formatter is looked at
  pyBlocks,        \* addPythonEntries: the blocks parsePythonBlocks returned, <<>> for other files
  \* ---- HTML formatter (formatHtml = render(tokenize(html))) ----
  src,        \* the pieces the text under format was typed from
  html,       \* tokenize: its argument
  pos,        \* tokenize: the cursor
  tokens,     \* tokenize: the token list built so far
  phase,      \* "tokenize" | "render" | "done", "idle" while references are looked at
  ri,         \* render: the loop index i
  depth,      \* render: the depth counter
  tagStack,   \* render: the open-element stack
  lines,      \* render: the output lines
  out,        \* formatHtml's result, once phase = "done"
  pass,       \* how many times the format command has been started
  first,      \* the result of the first pass, once a second one started
  \* ---- folder favorites (FavoritesManager) ----
  slots,      \* this.slots: slot index -> a FavoriteSlot or NoSlot
  storage,    \* workspaceState under STORAGE_KEY: Unset or the slots last saved
  visible,    \* the code-quick-refer.slot<i>.visible context keys
  addResult,  \* what the last addFavorite returned, NoResult before the first
  lastCall,   \* the last call made on the manager
  \* ---- overlapping runs of generateReferencesCommand ----
  calls,      \* per invocation: where it stands, its editor, its TsTraversalState, its text
  currentTsTraversalState, \* the module variable: whose state it refers to, 0 for null
  running,    \* the invocation whose code is executing, 0 between callbacks
  \* ---- status bar favorites (StatusBarFavoritesManager) ----
  items,      \* this.items: the favorite folders' paths, in order
  quickPick   \* per manage command: where it stands and the entries its quick pick shows

htmlVars == <<src, html, pos, tokens, phase, ri, depth, tagStack, lines, out, pass, first>>

refVars == <<editor, strategyEntries, entries, clipboard, refPc, pyBlocks>>

favVars == <<slots, storage, visible, addResult, lastCall>>

cmdVars == <<calls, currentTsTraversalState, running>>

barVars == <<items, quickPick>>

vars == <<refVars, htmlVars, favVars, cmdVars, barVars>>

-----------------------------------------------------------------------------
(* Strings, as JavaScript reads them *)

Min(a, b) == IF a < b THEN a ELSE b
Max(a, b) == IF a > b THEN a ELSE b

\* s[i], 0-based; "" where JavaScript gives undefined
At(s, i) == IF i >= 0 /\ i < Len(s) THEN SubSeq(s, i + 1, i + 1) ELSE ""

\* s.slice(a, b) for 0 <= a
Slice(s, a, b) == SubSeq(s, a + 1, Min(b, Len(s)))

\* s.startsWith(p, i)
StartsWith(s, p, i) == i + Len(p) <= Len(s) /\ SubSeq(s, i + 1, i + Len(p)) = p

RECURSIVE IndexOf(_, _, _)
\* s.indexOf(p, from), -1 when absent
IndexOf(s, p, from) ==
  IF from + Len(p) > Len(s) THEN -1
  ELSE IF StartsWith(s, p, from) THEN from
  ELSE IndexOf(s, p, from + 1)

Includes(s, p) == IndexOf(s, p, 0) # -1

UpperLetters == "ABCDEFGHIJKLMNOPQRSTUVWXYZ"
LowerLetters == "abcdefghijklmnopqrstuvwxyz"
Digits == "0123456789"

CharsOf(s) == {SubSeq(s, i, i) : i \in 1..Len(s)}
UpperSet == CharsOf(UpperLetters)
LowerSet == CharsOf(LowerLetters)
DigitSet == CharsOf(Digits)
\* \w
WordSet == UpperSet \cup LowerSet \cup DigitSet \cup {"_"}
\* [\w:-]
NameSet == WordSet \cup {":", "-"}
\* \s, and what trim() removes
SpaceSet == {" ", "\t", "\n", "\r", "\f"}

IsUpper(c) == c \in UpperSet
IsLetter(c) == c \in UpperSet \/ c \in LowerSet
IsDigit(c) == c \in DigitSet
IsWordChar(c) == c \in WordSet
IsNameChar(c) == c \in NameSet
IsSpace(c) == c \in SpaceSet

\* toLowerCase() of one character
LowerOf == [c \in UpperSet |-> At(LowerLetters, IndexOf(UpperLetters, c, 0))]
ToLowerChar(c) == IF c \in UpperSet THEN LowerOf[c] ELSE c

RECURSIVE ToLower(_)
ToLower(s) == IF s = "" THEN "" ELSE ToLowerChar(At(s, 0)) \o ToLower(Slice(s, 1, Len(s)))

RECURSIVE SkipSpaces(_, _)
\* the index after the run of \s that starts at i
SkipSpaces(s, i) == IF IsSpace(At(s, i)) THEN SkipSpaces(s, i + 1) ELSE i

RECURSIVE NameEnd(_, _)
\* the index after the run of [\w:-] that starts at i
NameEnd(s, i) == IF IsNameChar(At(s, i)) THEN NameEnd(s, i + 1) ELSE i

RECURSIVE TrimEndIdx(_, _)
TrimEndIdx(s, e) == IF e > 0 /\ IsSpace(At(s, e - 1)) THEN TrimEndIdx(s, e - 1) ELSE e

\* s.trim()
Trim(s) ==
  LET a == SkipSpaces(s, 0)
  IN IF a >= Len(s) THEN "" ELSE Slice(s, a, TrimEndIdx(s, Len(s)))

RECURSIVE Repeat(_, _)
\* s.repeat(n)
Repeat(s, n) == IF n <= 0 THEN "" ELSE s \o Repeat(s, n - 1)

RECURSIVE Join(_, _)
\* ls.join(sep)
Join(ls, sep) ==
  IF Len(ls) = 0 THEN ""
  ELSE IF Len(ls) = 1 THEN ls[1]
  ELSE ls[1] \o sep \o Join(Tail(ls), sep)

RECURSIVE Split(_, _)
\* s.split(sep) for a one-character sep
Split(s, sep) ==
  LET k == IndexOf(s, sep, 0)
  IN IF k = -1 THEN <<s>>
     ELSE <<Slice(s, 0, k)>> \o Split(Slice(s, k + 1, Len(s)), sep)

RECURSIVE ReplaceAll(_, _, _)
\* s.replace(/c/g, by) for a one-character c
ReplaceAll(s, c, by) ==
  IF s = "" THEN ""
  ELSE (IF At(s, 0) = c THEN by ELSE At(s, 0)) \o ReplaceAll(Slice(s, 1, Len(s)), c, by)

-----------------------------------------------------------------------------
(* htmlFormatter.ts: the tokenizer *)

INDENT == "  "
VOID_ELEMENTS ==
  {"area", "base", "br", "col", "embed", "hr", "img", "input", "link", "meta",
   "param", "source", "track", "wbr"}
RAW_TEXT_ELEMENTS == {"style", "script"}
PRESERVE_WHITESPACE_ELEMENTS == {"pre", "code", "textarea"}

\* The Token variants, over one record shape
StartTagTok(n, a, sc) ==
  [type |-> "startTag", tagName |-> n, attributes |-> a, selfClosing |-> sc, content |-> ""]
EndTagTok(n) ==
  [type |-> "endTag", tagName |-> n, attributes |-> "", selfClosing |-> FALSE, content |-> ""]
TextTok(c) ==
  [type |-> "text", tagName |-> "", attributes |-> "", selfClosing |-> FALSE, content |-> c]
CommentTok(c) ==
  [type |-> "comment", tagName |-> "", attributes |-> "", selfClosing |-> FALSE, content |-> c]
DoctypeTok(c) ==
  [type |-> "doctype", tagName |-> "", attributes |-> "", selfClosing |-> FALSE, content |-> c]
RawTextTok(n, a, c) ==
  [type |-> "rawText", tagName |-> n, attributes |-> a, selfClosing |-> FALSE, content |-> c]

RECURSIVE CollapseSpaces(_, _)
\* attrs.replace(/\s+/g, ' '), from index i on
CollapseSpaces(s, i) ==
  IF i >= Len(s) THEN ""
  ELSE IF IsSpace(At(s, i)) THEN " " \o CollapseSpaces(s, SkipSpaces(s, i))
  ELSE At(s, i) \o CollapseSpaces(s, i + 1)

normalizeAttributes(attrs) == Trim(CollapseSpaces(attrs, 0))

NoMatch == [ok |-> FALSE, name |-> "", attrs |-> "", slash |-> FALSE, len |-> 0]

\* /^<\/([A-Za-z][\w:-]*)\s*>/.exec(h.slice(p))
MatchEndTag(h, p) ==
  LET n0 == p + 2
      n1 == NameEnd(h, n0)
      g  == SkipSpaces(h, n1)
  IN IF StartsWith(h, "</", p) /\ IsLetter(At(h, n0)) /\ At(h, g) = ">"
     THEN [ok |-> TRUE, name |-> Slice(h, n0, n1), attrs |-> "", slash |-> FALSE,
           len |-> g + 1 - p]
     ELSE NoMatch

\* the start tag match with the third group always empty
MatchStartTag_NoSlash(h, p) ==
  LET n0 == p + 1
      n1 == NameEnd(h, n0)
      gt == IndexOf(h, ">", n1)
  IN IF At(h, p) = "<" /\ IsLetter(At(h, n0)) /\ gt # -1
     THEN [ok |-> TRUE, name |-> Slice(h, n0, n1), attrs |-> Slice(h, n1, gt),
           slash |-> FALSE, len |-> gt + 1 - p]
     ELSE NoMatch

\* /^<([A-Za-z][\w:-]*)([^>]*?)(\/?)>/.exec(h.slice(p)): the name is the longest
\* run of name characters, the match ends at the first '>' after it, and a '/'
\* right before that '>' goes to the third group, not to the lazy second one.
MatchStartTag(h, p) ==
  LET n0 == p + 1
      n1 == NameEnd(h, n0)
      gt == IndexOf(h, ">", n1)
      sl == gt > n1 /\ At(h, gt - 1) = "/"
  IN IF At(h, p) = "<" /\ IsLetter(At(h, n0)) /\ gt # -1
     THEN [ok |-> TRUE, name |-> Slice(h, n0, n1),
           attrs |-> Slice(h, n1, IF sl THEN gt - 1 ELSE gt), slash |-> sl,
           len |-> gt + 1 - p]
     ELSE NoMatch

RECURSIVE FindCloseTag(_, _, _)
RECURSIVE FindCloseTag_CaseSensitive(_, _, _)
\* the search without the 'i' flag
FindCloseTag_CaseSensitive(h, from, tagName) ==
  LET n1 == from + 2 + Len(tagName)
      g  == SkipSpaces(h, n1)
  IN IF n1 >= Len(h) THEN [index |-> -1, len |-> 0]
     ELSE IF Slice(h, from, n1) = "</" \o tagName /\ At(h, g) = ">"
          THEN [index |-> from, len |-> g + 1 - from]
          ELSE FindCloseTag_CaseSensitive(h, from + 1, tagName)

\* new RegExp(`</${tagName}\\s*>`, 'i').exec(h.slice(from)):
\* [index (from the start of h), the length of the match], index -1 when absent
FindCloseTag(h, from, tagName) ==
  LET n1 == from + 2 + Len(tagName)
      g  == SkipSpaces(h, n1)
  IN IF n1 >= Len(h) THEN [index |-> -1, len |-> 0]
     ELSE IF ToLower(Slice(h, from, n1)) = "</" \o ToLower(tagName) /\ At(h, g) = ">"
          THEN [index |-> from, len |-> g + 1 - from]
          ELSE FindCloseTag(h, from + 1, tagName)

\* the text token pushed, the cursor not moved
UnrecognizedLt_NoAdvance(p) == [push |-> <<TextTok("<")>>, pos |-> p, brk |-> FALSE]

\* a '<' that starts nothing known: tokens.push({type: 'text', content: '<'}); pos++
UnrecognizedLt(p) == [push |-> <<TextTok("<")>>, pos |-> p + 1, brk |-> FALSE]

\* One iteration of tokenize's while loop at cursor p (p < Len(h)):
\* the tokens pushed, the cursor after it, and whether the loop was left by break.
TokenizeIteration(h, p) ==
  IF StartsWith(h, "<!--", p) THEN
    LET endIndex == IndexOf(h, "-->", p + 4)
    IN IF endIndex = -1
       THEN [push |-> <<CommentTok(Slice(h, p, Len(h)))>>, pos |-> p, brk |-> TRUE]
       ELSE [push |-> <<CommentTok(Slice(h, p, endIndex + 3))>>, pos |-> endIndex + 3,
             brk |-> FALSE]
  ELSE IF StartsWith(h, "<!", p) THEN
    LET endIndex == IndexOf(h, ">", p)
    IN IF endIndex = -1
       THEN [push |-> <<DoctypeTok(Slice(h, p, Len(h)))>>, pos |-> p, brk |-> TRUE]
       ELSE [push |-> <<DoctypeTok(Slice(h, p, endIndex + 1))>>, pos |-> endIndex + 1,
             brk |-> FALSE]
  ELSE IF StartsWith(h, "</", p) /\ MatchEndTag(h, p).ok THEN
    LET match == MatchEndTag(h, p)
    IN [push |-> <<EndTagTok(ToLower(match.name))>>, pos |-> p + match.len, brk |-> FALSE]
  ELSE IF At(h, p) = "<" THEN
    LET match == MatchStartTag(h, p)
        tagName == ToLower(match.name)
        attributes == normalizeAttributes(match.attrs)
        selfClosing == match.slash \/ tagName \in VOID_ELEMENTS
        endMatch == FindCloseTag(h, p + match.len, tagName)
    IN IF match.ok THEN
         IF tagName \in RAW_TEXT_ELEMENTS /\ ~selfClosing /\ endMatch.index # -1
         THEN [push |-> <<RawTextTok(tagName, attributes,
                                     Slice(h, p + match.len, endMatch.index))>>,
               pos |-> endMatch.index + endMatch.len, brk |-> FALSE]
         ELSE [push |-> <<StartTagTok(tagName, attributes, selfClosing)>>,
               pos |-> p + match.len, brk |-> FALSE]
       ELSE UnrecognizedLt(p)
  ELSE
    LET found == IndexOf(h, "<", p)
        nextTagIndex == IF found = -1 THEN Len(h) ELSE found
        textContent == Slice(h, p, nextTagIndex)
    IN [push |-> IF Len(textContent) > 0 THEN <<TextTok(textContent)>> ELSE <<>>,
        pos |-> nextTagIndex, brk |-> FALSE]

\* src/unnamed/part_001, tokenize, the text branch: the text up to the next
\* '<' from the cursor on, the cursor moved to that '<'
TextRun(h, p) ==
  LET found == IndexOf(h, "<", p)
      nextTagIndex == IF found = -1 THEN Len(h) ELSE found
      textContent == Slice(h, p, nextTagIndex)
  IN [push |-> IF Len(textContent) > 0 THEN <<TextTok(textContent)>> ELSE <<>>,
      pos |-> nextTagIndex, brk |-> FALSE]

\* One iteration of the while loop of tokenize in src/unnamed/part_001.  That
\* revision is line for line the one above without the branch for a '<' that
\* starts nothing known: such a '<' falls through to the text branch
AltTokenizeIteration(h, p) ==
  IF /\ At(h, p) = "<"
     /\ ~StartsWith(h, "<!", p)
     /\ ~MatchEndTag(h, p).ok
     /\ ~MatchStartTag(h, p).ok
  THEN TextRun(h, p)
  ELSE TokenizeIteration(h, p)

-----------------------------------------------------------------------------
(* htmlFormatter.ts: the renderer *)

ShortRawTextLimit == 60

escapeNewlines(text) == ReplaceAll(ReplaceAll(text, "\n", "&#10;"), "\r", "&#13;")

isPreserveWhitespaceElement(tag) == tag \in PRESERVE_WHITESPACE_ELEMENTS

RECURSIVE DropBlankHead(_)
\* while (contentLines.length > 0 && contentLines[0].trim() === '') shift()
DropBlankHead(ls) ==
  IF Len(ls) > 0 /\ Trim(ls[1]) = "" THEN DropBlankHead(Tail(ls)) ELSE ls

RECURSIVE DropBlankTail(_)
\* while (contentLines.length > 0 && contentLines[last].trim() === '') pop()
DropBlankTail(ls) ==
  IF Len(ls) > 0 /\ Trim(ls[Len(ls)]) = "" THEN DropBlankTail(SubSeq(ls, 1, Len(ls) - 1))
  ELSE ls

\* line.match(/^(\s*)/)[1].length
LeadingSpaces(line) == SkipSpaces(line, 0)

RECURSIVE MinIndent(_, _)
\* the smallest leading-space count of the non-blank lines, acc where there is none
MinIndent(ls, acc) ==
  IF Len(ls) = 0 THEN acc
  ELSE MinIndent(Tail(ls),
                 IF Len(Trim(ls[1])) > 0 /\ (acc = -1 \/ LeadingSpaces(ls[1]) < acc)
                 THEN LeadingSpaces(ls[1]) ELSE acc)

RECURSIVE Reindent(_, _, _)
\* the non-blank lines, each without the common indent and behind baseIndent
Reindent(ls, minIndent, baseIndent) ==
  IF Len(ls) = 0 THEN <<>>
  ELSE (IF Len(Trim(ls[1])) > 0
        THEN <<baseIndent \o Slice(ls[1], minIndent, Len(ls[1]))>> ELSE <<>>)
       \o Reindent(Tail(ls), minIndent, baseIndent)

\* The lines the rawText branch pushes at depth d
RenderRawText(token, d) ==
  LET startTag == IF token.attributes # ""
                  THEN "<" \o token.tagName \o " " \o token.attributes \o ">"
                  ELSE "<" \o token.tagName \o ">"
      closeTag == "</" \o token.tagName \o ">"
      contentLines == DropBlankTail(DropBlankHead(Split(token.content, "\n")))
      found == MinIndent(contentLines, -1)
      minIndent == IF found = -1 THEN 0 ELSE found
  IN IF Len(contentLines) = 0
     THEN <<Repeat(INDENT, d) \o startTag \o closeTag>>
     ELSE IF Len(contentLines) = 1 /\ Len(Trim(contentLines[1])) < ShortRawTextLimit
     THEN <<Repeat(INDENT, d) \o startTag \o Trim(contentLines[1]) \o closeTag>>
     ELSE <<Repeat(INDENT, d) \o startTag>>
          \o Reindent(contentLines, minIndent, Repeat(INDENT, d + 1))
          \o <<Repeat(INDENT, d) \o closeTag>>

\* the start tag as render writes it
TagStr(token) ==
  IF token.attributes # ""
  THEN "<" \o token.tagName \o " " \o token.attributes
       \o (IF token.selfClosing THEN " /" ELSE "") \o ">"
  ELSE "<" \o token.tagName \o (IF token.selfClosing THEN " /" ELSE "") \o ">"

\* the look-ahead of the startTag branch: (text, matching endTag) follow
CollapseAhead(toks, i) ==
  /\ i + 2 <= Len(toks)
  /\ toks[i + 1].type = "text"
  /\ toks[i + 2].type = "endTag"
  /\ toks[i + 2].tagName = toks[i].tagName

\* ... and that text, trimmed, is non-empty and holds no newline
Collapses(toks, i) ==
  /\ CollapseAhead(toks, i)
  /\ Len(Trim(toks[i + 1].content)) > 0
  /\ ~Includes(Trim(toks[i + 1].content), "\n")

\* an endTag that takes one from the depth whatever it is
EndTagDepth_NoFloor(d) == d - 1

\* an endTag that leaves the depth as it is
EndTagDepth_Same(d) == d

\* depth after an endTag: Math.max(0, depth - 1)
EndTagDepth(d) == Max(0, d - 1)

\* One iteration of render's for loop on toks[i] (1-based here, i <= Len(toks)):
\* the lines pushed, the next index, the depth and the stack after it.
RenderIteration(toks, i, d, stack) ==
  LET token == toks[i]
      same == [push |-> <<>>, next |-> i + 1, depth |-> d, stack |-> stack]
  IN CASE token.type = "doctype" -> [same EXCEPT !.push = <<token.content>>]
       [] token.type = "comment" -> [same EXCEPT !.push = <<Repeat(INDENT, d) \o token.content>>]
       [] token.type = "rawText" -> [same EXCEPT !.push = RenderRawText(token, d)]
       [] token.type = "startTag" ->
            IF token.selfClosing
            THEN [same EXCEPT !.push = <<Repeat(INDENT, d) \o TagStr(token)>>]
            ELSE IF Collapses(toks, i)
            THEN LET textContent == Trim(toks[i + 1].content)
                     inPreserve == token.tagName \in PRESERVE_WHITESPACE_ELEMENTS
                     processedInline == IF inPreserve THEN textContent
                                        ELSE escapeNewlines(textContent)
                 IN [same EXCEPT !.push = <<Repeat(INDENT, d) \o TagStr(token)
                                             \o processedInline
                                             \o "</" \o token.tagName \o ">">>,
                                 !.next = i + 3]
            ELSE [push |-> <<Repeat(INDENT, d) \o TagStr(token)>>, next |-> i + 1,
                  depth |-> d + 1, stack |-> Append(stack, token.tagName)]
       [] token.type = "endTag" ->
            [push |-> <<Repeat(INDENT, EndTagDepth(d)) \o "</" \o token.tagName \o ">">>,
             next |-> i + 1, depth |-> EndTagDepth(d),
             stack |-> IF Len(stack) > 0 THEN SubSeq(stack, 1, Len(stack) - 1) ELSE stack]
       [] OTHER ->
            LET trimmed == Trim(token.content)
                inPreserveElement == \E k \in 1..Len(stack) : isPreserveWhitespaceElement(stack[k])
                processedText == IF inPreserveElement THEN trimmed ELSE escapeNewlines(trimmed)
            IN IF Len(trimmed) > 0
               THEN [same EXCEPT !.push = <<Repeat(INDENT, d) \o processedText>>]
               ELSE same

-----------------------------------------------------------------------------
(* references.ts: values shared by the strategies *)

\* string | null: <<>> is null, <<s>> the string s
Null == <<>>
Some(s) == <<s>>
\* JavaScript's truthiness of a string | null
Truthy(v) == v # Null /\ v[1] # ""

\* a ReferenceEntry
Entry(relativePath, lineText, label) ==
  [relativePath |-> relativePath, lineText |-> lineText, label |-> label]

RECURSIVE ToStr(_)
\* `${n}` for n >= 0
ToStr(n) == IF n < 10 THEN At(Digits, n) ELSE ToStr(n \div 10) \o At(Digits, n % 10)

RECURSIVE LastAtOrBefore(_, _, _)
\* the last index <= i where s holds the character c, -1 when there is none
LastAtOrBefore(s, c, i) ==
  IF i < 0 THEN -1
  ELSE IF At(s, i) = c THEN i
  ELSE LastAtOrBefore(s, c, i - 1)

\* s.lastIndexOf(c, from) for a one-character c
LastIndexOf(s, c, from) == LastAtOrBefore(s, c, Max(0, Min(from, Len(s) - 1)))

\* path.extname(fileName): from the last '.' of the last path segment on, and
\* '' when that segment has none or only a leading one
ExtName(fileName) ==
  LET base == Slice(fileName, LastIndexOf(fileName, "/", Len(fileName)) + 1, Len(fileName))
      dot  == LastIndexOf(base, ".", Len(base))
  IN IF dot <= 0 THEN "" ELSE Slice(base, dot, Len(base))

RECURSIVE CountIn(_, _, _)
\* how often the character c occurs in s before offset e
CountIn(s, c, e) ==
  IF e <= 0 THEN 0 ELSE (IF At(s, e - 1) = c THEN 1 ELSE 0) + CountIn(s, c, e - 1)

\* document.positionAt(offset), for a document with '\n' line ends
PositionAt(text, offset) ==
  [line |-> CountIn(text, "\n", offset),
   character |-> offset - (LastAtOrBefore(text, "\n", offset - 1) + 1)]

\* a vscode.Selection over text, from its anchor and active offsets
Selection(text, anchor, active) ==
  [isEmpty |-> anchor = active,
   active |-> PositionAt(text, active),
   start |-> PositionAt(text, Min(anchor, active)),
   end |-> PositionAt(text, Max(anchor, active)),
   startOffset |-> Min(anchor, active),
   endOffset |-> Max(anchor, active)]

getSelectionLineRange(selection) ==
  IF selection.isEmpty
  THEN [startLine |-> selection.active.line, endLine |-> selection.active.line]
  ELSE [startLine |-> selection.start.line,
        endLine |-> IF selection.end.character = 0 /\ selection.end.line > selection.start.line
                    THEN selection.end.line - 1 ELSE selection.end.line]

\* `${startLine + 1}` or `${startLine + 1}-${endLine + 1}`
LineText(startLine, endLine) ==
  IF startLine = endLine THEN ToStr(startLine + 1)
  ELSE ToStr(startLine + 1) \o "-" \o ToStr(endLine + 1)

-----------------------------------------------------------------------------
(* references.ts: the HTML strategy *)

SnippetLimit == 200

\* /^<\s*([A-Za-z][\w:-]*)/.exec(snippet): the name, or Null
MatchOpeningTag(snippet) ==
  LET n0 == SkipSpaces(snippet, 1)
  IN IF At(snippet, 0) = "<" /\ IsLetter(At(snippet, n0))
     THEN Some(Slice(snippet, n0, NameEnd(snippet, n0)))
     ELSE Null

RECURSIVE ScanBackForTag(_, _)
\* a scan that gives up at the first "<" that begins no opening tag
ScanBackForTag_NoSkip(fullText, index) ==
  IF index < 0 \/ LastIndexOf(fullText, "<", index) = -1 THEN Null
  ELSE MatchOpeningTag(Slice(fullText, LastIndexOf(fullText, "<", index), Len(fullText)))

\* the while (index >= 0) loop of findEnclosingHtmlTagName
ScanBackForTag(fullText, index) ==
  IF index < 0 THEN Null
  ELSE LET ltIndex == LastIndexOf(fullText, "<", index)
           snippet == Slice(fullText, ltIndex, Min(ltIndex + SnippetLimit, Len(fullText)))
       IN IF ltIndex = -1 THEN Null
          ELSE IF StartsWith(snippet, "</", 0) \/ StartsWith(snippet, "<!", 0)
                  \/ StartsWith(snippet, "<?", 0)
               THEN ScanBackForTag(fullText, ltIndex - 1)
          ELSE IF MatchOpeningTag(snippet) # Null THEN MatchOpeningTag(snippet)
          ELSE ScanBackForTag(fullText, ltIndex - 1)

findEnclosingHtmlTagName(fullText, focusPos) ==
  IF focusPos <= 0 THEN Null
  ELSE ScanBackForTag(fullText, Min(focusPos, Len(fullText)))

addHtmlEntries(relativePath, lineText, fullText, focusPos) ==
  <<Entry(relativePath, lineText, findEnclosingHtmlTagName(fullText, focusPos))>>

-----------------------------------------------------------------------------
(* references.ts: the Python strategy *)

\* a PythonBlock
PythonBlock(type, name, label, indent, startLine, endLine) ==
  [type |-> type, name |-> name, label |-> label, indent |-> indent,
   startLine |-> startLine, endLine |-> endLine]

\* [A-Za-z_]
IsIdentStart(c) == IsLetter(c) \/ c = "_"

RECURSIVE WordEnd(_, _)
\* the index after the run of \w that starts at i
WordEnd(s, i) == IF IsWordChar(At(s, i)) THEN WordEnd(s, i + 1) ELSE i

RECURSIVE StripCr(_, _)
\* the pieces of a split at '\n', each but the last without the '\r' that
\* /\r?\n/ takes with the line end
StripCr(ls, i) ==
  IF i > Len(ls) THEN <<>>
  ELSE LET l == ls[i]
       IN <<IF i < Len(ls) /\ Len(l) > 0 /\ At(l, Len(l) - 1) = "\r"
            THEN Slice(l, 0, Len(l) - 1) ELSE l>> \o StripCr(ls, i + 1)

\* fullText.split(/\r?\n/)
SplitLines(fullText) == StripCr(Split(fullText, "\n"), 1)

RECURSIVE IndentFrom(_, _)
IndentFrom(line, i) ==
  IF At(line, i) = " " THEN 1 + IndentFrom(line, i + 1)
  ELSE IF At(line, i) = "\t" THEN 4 + IndentFrom(line, i + 1)
  ELSE 0

getPythonIndent(line) == IndentFrom(line, 0)

\* /^class\s+([A-Za-z_]\w*)\b/.exec(s): the name, or Null
MatchClassHeader(s) ==
  LET n0 == SkipSpaces(s, 5)
  IN IF StartsWith(s, "class", 0) /\ n0 > 5 /\ IsIdentStart(At(s, n0))
     THEN Some(Slice(s, n0, WordEnd(s, n0)))
     ELSE Null

\* /^def\s+([A-Za-z_]\w*)\s*\(/.exec(s): the name, or Null
MatchDefHeader(s) ==
  LET n0 == SkipSpaces(s, 3)
      n1 == WordEnd(s, n0)
  IN IF StartsWith(s, "def", 0) /\ n0 > 3 /\ IsIdentStart(At(s, n0))
        /\ At(s, SkipSpaces(s, n1)) = "("
     THEN Some(Slice(s, n0, n1))
     ELSE Null

RECURSIVE findNearestPythonClass(_, _)
\* a search that looks at the top of the stack only
findNearestPythonClass_Top(blocks, stack) ==
  IF Len(stack) > 0 /\ blocks[stack[Len(stack)]].type = "class"
  THEN Some(blocks[stack[Len(stack)]].name)
  ELSE Null

\* the name of the innermost class among the blocks the stack indexes, or Null
findNearestPythonClass(blocks, stack) ==
  IF Len(stack) = 0 THEN Null
  ELSE IF blocks[stack[Len(stack)]].type = "class"
       THEN Some(blocks[stack[Len(stack)]].name)
       ELSE findNearestPythonClass(blocks, SubSeq(stack, 1, Len(stack) - 1))

RECURSIVE PopClosed(_, _, _, _)
RECURSIVE PopClosed_Late(_, _, _, _)
RECURSIVE PopClosed_Strict(_, _, _, _)
\* a closing that needs a strictly smaller indentation
PopClosed_Late(blocks, stack, indent, endLine) ==
  IF Len(stack) > 0 /\ indent <= blocks[stack[Len(stack)]].indent
  THEN PopClosed_Late([blocks EXCEPT ![stack[Len(stack)]].endLine = endLine + 1],
                      SubSeq(stack, 1, Len(stack) - 1), indent, endLine)
  ELSE [blocks |-> blocks, stack |-> stack]

PopClosed_Strict(blocks, stack, indent, endLine) ==
  IF Len(stack) > 0 /\ indent < blocks[stack[Len(stack)]].indent
  THEN PopClosed_Strict([blocks EXCEPT ![stack[Len(stack)]].endLine = endLine],
                        SubSeq(stack, 1, Len(stack) - 1), indent, endLine)
  ELSE [blocks |-> blocks, stack |-> stack]

\* while (stack.length > 0 && indent <= top.indent) pop and close at endLine;
\* the stack holds indexes into blocks
PopClosed(blocks, stack, indent, endLine) ==
  IF Len(stack) > 0 /\ indent <= blocks[stack[Len(stack)]].indent
  THEN PopClosed([blocks EXCEPT ![stack[Len(stack)]].endLine = endLine],
                 SubSeq(stack, 1, Len(stack) - 1), indent, endLine)
  ELSE [blocks |-> blocks, stack |-> stack]

RECURSIVE ParseLines(_, _, _, _)
\* the for loop of parsePythonBlocks from lineIndex on, then the final closing
ParseLines(lines_, lineIndex, blocks, stack) ==
  IF lineIndex >= Len(lines_) THEN blocks
  ELSE
    LET line == lines_[lineIndex + 1]
        trimmed == Trim(line)
        indent == getPythonIndent(line)
        popped == PopClosed(blocks, stack, indent, lineIndex - 1)
        classMatch == MatchClassHeader(trimmed)
        defMatch == MatchDefHeader(trimmed)
        parentClass == findNearestPythonClass(popped.blocks, popped.stack)
        last == Len(lines_) - 1
    IN IF Len(trimmed) = 0 \/ StartsWith(trimmed, "#", 0)
       THEN ParseLines(lines_, lineIndex + 1, blocks, stack)
       ELSE IF classMatch # Null
       THEN ParseLines(lines_, lineIndex + 1,
              Append(popped.blocks,
                     PythonBlock("class", classMatch[1], classMatch[1], indent, lineIndex, last)),
              Append(popped.stack, Len(popped.blocks) + 1))
       ELSE IF defMatch # Null
       THEN ParseLines(lines_, lineIndex + 1,
              Append(popped.blocks,
                     PythonBlock("def", defMatch[1],
                                 IF parentClass # Null THEN parentClass[1] \o "." \o defMatch[1]
                                 ELSE defMatch[1],
                                 indent, lineIndex, last)),
              Append(popped.stack, Len(popped.blocks) + 1))
       ELSE ParseLines(lines_, lineIndex + 1, popped.blocks, popped.stack)

parsePythonBlocks(fullText) == ParseLines(SplitLines(fullText), 0, <<>>, <<>>)

RECURSIVE SmallestEnclosing(_, _, _, _, _)
\* findEnclosingPythonDef / findEnclosingPythonClass: the first block of the
\* type with the least width among those holding cursorLine; 0 when none
SmallestEnclosing(blocks, type, cursorLine, i, best) ==
  IF i > Len(blocks) THEN best
  ELSE LET b == blocks[i]
           holds == b.type = type /\ cursorLine >= b.startLine /\ cursorLine <= b.endLine
           narrower == best = 0
                       \/ b.endLine - b.startLine < blocks[best].endLine - blocks[best].startLine
       IN SmallestEnclosing(blocks, type, cursorLine, i + 1,
                            IF holds /\ narrower THEN i ELSE best)

\* the first def block that holds cursorLine, whatever its width; 0 when none
findEnclosingPythonDef_Outermost(blocks, cursorLine) ==
  LET holding == {i \in 1..Len(blocks) : /\ blocks[i].type = "def"
                                         /\ cursorLine >= blocks[i].startLine
                                         /\ cursorLine <= blocks[i].endLine}
  IN IF holding = {} THEN 0 ELSE CHOOSE i \in holding : \A j \in holding : i <= j

findEnclosingPythonDef(blocks, cursorLine) == SmallestEnclosing(blocks, "def", cursorLine, 1, 0)
findEnclosingPythonClass(blocks, cursorLine) == SmallestEnclosing(blocks, "class", cursorLine, 1, 0)

RECURSIVE DropContinuations(_, _)
\* s.replace(/\\\s*\r?\n\s*/g, ''), from index i on: a backslash and the white
\* space after it go when that white space holds a line end
DropContinuations(s, i) ==
  IF i >= Len(s) THEN ""
  ELSE LET j == SkipSpaces(s, i + 1)
       IN IF At(s, i) = "\\" /\ Includes(Slice(s, i + 1, j), "\n")
          THEN DropContinuations(s, j)
          ELSE At(s, i) \o DropContinuations(s, i + 1)

RECURSIVE TightenDots(_, _)
\* s.replace(/\s*\.\s*/g, '.'), from index i on
TightenDots(s, i) ==
  IF i >= Len(s) THEN ""
  ELSE LET j == SkipSpaces(s, i)
       IN IF At(s, j) = "."
          THEN "." \o TightenDots(s, SkipSpaces(s, j + 1))
          ELSE At(s, i) \o TightenDots(s, i + 1)

normalizePythonSelectionText(selectionText) ==
  Trim(TightenDots(DropContinuations(selectionText, 0), 0))

RECURSIVE DottedTail(_, _, _)
\* from index i (just after an identifier) s is (\.identifier)* to its end,
\* with at least one part when need is TRUE
DottedTail(s, i, need) ==
  IF i >= Len(s) THEN ~need
  ELSE /\ At(s, i) = "."
       /\ IsIdentStart(At(s, i + 1))
       /\ DottedTail(s, WordEnd(s, i + 1), FALSE)

findPythonSelectionLabel(selectionText) ==
  LET trimmed == Trim(selectionText)
      normalized == normalizePythonSelectionText(trimmed)
      identEnd == WordEnd(normalized, 0)
  IN IF Len(trimmed) = 0 THEN Null
     \* /^([A-Za-z_]\w*(?:\.[A-Za-z_]\w*)+)$/
     ELSE IF IsIdentStart(At(normalized, 0)) /\ DottedTail(normalized, identEnd, TRUE)
     THEN Some(normalized)
     ELSE IF MatchClassHeader(normalized) # Null THEN MatchClassHeader(normalized)
     \* /^([A-Za-z_]\w*)$/
     ELSE IF IsIdentStart(At(normalized, 0)) /\ identEnd = Len(normalized)
     THEN Some(normalized)
     ELSE Null

\* header labels for def blocks only: a class header in the selection gives none
HeaderLabels_DefsOnly(blocks, type, selectionStartLine, selectionEndLine) ==
  LET hit(i) == /\ blocks[i].type = "def" /\ type = "def"
                /\ blocks[i].startLine >= selectionStartLine
                /\ blocks[i].startLine <= selectionEndLine
      F[i \in 0..Len(blocks)] ==
        IF i = 0 THEN <<>>
        ELSE IF hit(i) THEN Append(F[i - 1], blocks[i].label) ELSE F[i - 1]
  IN F[Len(blocks)]

\* the labels of the blocks of the type whose header line is in the selection
HeaderLabels(blocks, type, selectionStartLine, selectionEndLine) ==
  LET hit(i) == /\ blocks[i].type = type
                /\ blocks[i].startLine >= selectionStartLine
                /\ blocks[i].startLine <= selectionEndLine
      F[i \in 0..Len(blocks)] ==
        IF i = 0 THEN <<>>
        ELSE IF hit(i) THEN Append(F[i - 1], blocks[i].label) ELSE F[i - 1]
  IN F[Len(blocks)]

addPythonEntries(relativePath, lineText, fullText, selectionText, selectionStartLine, selectionEndLine, cursorLine) ==
  LET blocks == parsePythonBlocks(fullText)
      headers == HeaderLabels(blocks, "class", selectionStartLine, selectionEndLine)
                 \o HeaderLabels(blocks, "def", selectionStartLine, selectionEndLine)
      selectionLabel == findPythonSelectionLabel(selectionText)
      enclosing == findEnclosingPythonDef(blocks, cursorLine)
      enclosingClass == findEnclosingPythonClass(blocks, cursorLine)
  IN IF Len(headers) > 0
     THEN [i \in 1..Len(headers) |-> Entry(relativePath, lineText, Some(headers[i]))]
     ELSE IF Truthy(selectionLabel)
     THEN <<Entry(relativePath, lineText, selectionLabel)>>
     ELSE IF enclosing = 0
     THEN <<Entry(relativePath, lineText,
                  IF enclosingClass # 0 THEN Some(blocks[enclosingClass].label) ELSE Null)>>
     ELSE <<Entry(relativePath, lineText, Some(blocks[enclosing].label))>>

-----------------------------------------------------------------------------
(* references.ts: the TS/JS strategy.  ts.createSourceFile is the TypeScript  *)
(* library's; a parsed file is given as its text and its nodes in the order   *)
(* ts.forEachChild visits them (parents before children, children in source   *)
(* order), each with getStart(), getEnd(), its parent and the property of the *)
(* parent that holds it.                                                      *)

\* source text that is no node of its own: punctuation, keywords, white space
Tk(text) == [kind |-> "Token", role |-> "", text |-> text, parts |-> <<>>]
\* a node, held by its parent's property `role`, written as its parts in order
Nd(kind, role, parts) == [kind |-> kind, role |-> role, text |-> "", parts |-> parts]

RECURSIVE FlattenNode(_, _, _)
RECURSIVE FlattenParts(_, _, _, _)
\* acc = [text, nodes]: the text written and the nodes opened so far
FlattenNode(t, parent, acc) ==
  LET me == Len(acc.nodes) + 1
      opened == [text |-> acc.text,
                 nodes |-> Append(acc.nodes,
                                  [kind |-> t.kind, role |-> t.role, start |-> Len(acc.text),
                                   end |-> Len(acc.text), parent |-> parent])]
      inner == FlattenParts(t.parts, 1, me, opened)
  IN [text |-> inner.text, nodes |-> [inner.nodes EXCEPT ![me].end = Len(inner.text)]]

FlattenParts(parts, k, parent, acc) ==
  IF k > Len(parts) THEN acc
  ELSE IF parts[k].kind = "Token"
       THEN FlattenParts(parts, k + 1, parent, [acc EXCEPT !.text = @ \o parts[k].text])
       ELSE FlattenParts(parts, k + 1, parent, FlattenNode(parts[k], parent, acc))

\* The SourceFile of the statements (and the white space between them): it
\* starts at its first token, ends at the end of the text, and its last child
\* is the EndOfFileToken.
SourceFile(parts) ==
  LET root == [kind |-> "SourceFile", role |-> "", start |-> 0, end |-> 0, parent |-> 0]
      body == FlattenParts(parts, 1, 1, [text |-> "", nodes |-> <<root>>])
      n == Len(body.text)
  IN [text |-> body.text,
      nodes |-> Append([body.nodes EXCEPT ![1].start = SkipSpaces(body.text, 0), ![1].end = n],
                       [kind |-> "EndOfFileToken", role |-> "endOfFileToken", start |-> n,
                        end |-> n, parent |-> 1])]

\* the child of node i that its property `role` holds, 0 when it has none
ChildAt(nodes, i, role) ==
  IF \E j \in 1..Len(nodes) : nodes[j].parent = i /\ nodes[j].role = role
  THEN CHOOSE j \in 1..Len(nodes) : nodes[j].parent = i /\ nodes[j].role = role
  ELSE 0

\* node.getText(sourceFile)
NodeText(sf, i) == Slice(sf.text, sf.nodes[i].start, sf.nodes[i].end)

\* name.text of an Identifier, StringLiteral or NumericLiteral written plainly
TextOf(sf, i) ==
  IF sf.nodes[i].kind = "StringLiteral"
  THEN Slice(sf.text, sf.nodes[i].start + 1, sf.nodes[i].end - 1)
  ELSE NodeText(sf, i)

getTypeScriptPropertyNameText(sf, name) ==
  LET k == sf.nodes[name].kind
  IN IF k \in {"Identifier", "StringLiteral", "NumericLiteral"} THEN Some(TextOf(sf, name))
     ELSE IF k = "ComputedPropertyName" THEN Some(NodeText(sf, ChildAt(sf.nodes, name, "expression")))
     ELSE Null

getTypeScriptObjectLiteralOwnerName(sf, node) ==
  LET parent == sf.nodes[node].parent
      pk == sf.nodes[parent].kind
      pname == ChildAt(sf.nodes, parent, "name")
      left == ChildAt(sf.nodes, parent, "left")
  IN IF parent = 0 THEN Null
     ELSE IF pk = "VariableDeclaration" /\ sf.nodes[node].role = "initializer"
             /\ pname # 0 /\ sf.nodes[pname].kind = "Identifier"
     THEN Some(TextOf(sf, pname))
     ELSE IF pk = "BinaryExpression" /\ sf.nodes[node].role = "right"
             /\ sf.nodes[left].kind = "Identifier"
     THEN Some(TextOf(sf, left))
     ELSE IF pk = "BinaryExpression" /\ sf.nodes[node].role = "right"
             /\ sf.nodes[left].kind = "PropertyAccessExpression"
     THEN Some(NodeText(sf, left))
     ELSE Null

\* `${owner}.${member}` when the owner has a name, else the bare member
\* a member label without its owner
Qualified_Bare(owner, member) == Some(member)

Qualified(owner, member) ==
  IF Truthy(owner) THEN Some(owner[1] \o "." \o member) ELSE Some(member)

getTypeScriptPropertyAssignmentLabel(sf, node) ==
  LET propertyName == getTypeScriptPropertyNameText(sf, ChildAt(sf.nodes, node, "name"))
      parent == sf.nodes[node].parent
  IN IF ~Truthy(propertyName) THEN Null
     ELSE IF sf.nodes[parent].kind # "ObjectLiteralExpression" THEN propertyName
     ELSE Qualified(getTypeScriptObjectLiteralOwnerName(sf, parent), propertyName[1])

getTypeScriptMemberLabel(sf, node) ==
  LET name == ChildAt(sf.nodes, node, "name")
      memberName == getTypeScriptPropertyNameText(sf, name)
      parent == sf.nodes[node].parent
      className == ChildAt(sf.nodes, parent, "name")
  IN IF name = 0 THEN Null
     ELSE IF ~Truthy(memberName) THEN Null
     ELSE IF sf.nodes[parent].kind \in {"ClassDeclaration", "ClassExpression"}
     THEN Qualified(IF className # 0 THEN Some(TextOf(sf, className)) ELSE Null, memberName[1])
     ELSE IF sf.nodes[parent].kind = "ObjectLiteralExpression"
     THEN Qualified(getTypeScriptObjectLiteralOwnerName(sf, parent), memberName[1])
     ELSE memberName

\* the line of the node's start offset in place of the selection's line text
TsEntryLineText_NodeLine(sf, node, lineText) ==
  ToStr(PositionAt(sf.text, sf.nodes[node].start).line + 1)

\* the lineText getTypeScriptEntryFromNode gives an entry: state.lineText
TsEntryLineText(sf, node, lineText) == lineText

\* a classification that knows function declarations only
getTypeScriptEntryFromNode_DeclarationsOnly(sf, node, relativePath, lineText) ==
  IF sf.nodes[node].kind = "FunctionDeclaration" /\ ChildAt(sf.nodes, node, "name") # 0
  THEN <<Entry(relativePath, lineText, Some(TextOf(sf, ChildAt(sf.nodes, node, "name"))))>>
  ELSE <<>>

\* getTypeScriptEntryFromNode: <<entry>>, or <<>> for null
getTypeScriptEntryFromNode(sf, node, relativePath, lineText) ==
  LET k == sf.nodes[node].kind
      name == ChildAt(sf.nodes, node, "name")
      init == ChildAt(sf.nodes, node, "initializer")
      entry(label) == IF label = Null THEN <<>>
                      ELSE <<Entry(relativePath, TsEntryLineText(sf, node, lineText), label)>>
  IN IF k = "FunctionDeclaration" /\ name # 0 THEN entry(Some(TextOf(sf, name)))
     ELSE IF k = "VariableDeclaration" /\ name # 0 /\ sf.nodes[name].kind = "Identifier"
             /\ init # 0 /\ sf.nodes[init].kind \in {"ArrowFunction", "FunctionExpression"}
     THEN entry(Some(TextOf(sf, name)))
     ELSE IF k \in {"MethodDeclaration", "PropertyDeclaration"}
     THEN entry(getTypeScriptMemberLabel(sf, node))
     ELSE IF k = "PropertyAssignment" THEN entry(getTypeScriptPropertyAssignmentLabel(sf, node))
     ELSE <<>>

\* `${relativePath}:${lineText}:${label ?? ''}`
EntryKey(e) == e.relativePath \o ":" \o e.lineText \o ":" \o (IF e.label = Null THEN "" ELSE e.label[1])

addUniqueEntry(entries_, entry) ==
  IF \E k \in 1..Len(entries_) : EntryKey(entries_[k]) = EntryKey(entry)
  THEN entries_
  ELSE Append(entries_, entry)

\* ranges that only touch do not count
rangesIntersect_Strict(aStart, aEnd, bStart, bEnd) == aStart < bEnd /\ bStart < aEnd

rangesIntersect(aStart, aEnd, bStart, bEnd) == aStart <= bEnd /\ bStart <= aEnd

\* the TsTraversalState fields the walk writes
NewTraversal == [entries |-> <<>>, enclosingCandidate |-> 0, enclosingCandidateWidth |-> -1]

\* visitTsNode's own work on one node (-1 stands for Number.POSITIVE_INFINITY)
VisitOne(sf, node, st, selectionStart, selectionEnd, focusPos, relativePath, lineText) ==
  LET nodeStart == sf.nodes[node].start
      nodeEnd == sf.nodes[node].end
      width == nodeEnd - nodeStart
      closer == /\ focusPos >= nodeStart /\ focusPos <= nodeEnd
                /\ (st.enclosingCandidateWidth = -1 \/ width < st.enclosingCandidateWidth)
      entry == getTypeScriptEntryFromNode(sf, node, relativePath, lineText)
  IN [entries |-> IF rangesIntersect(nodeStart, nodeEnd, selectionStart, selectionEnd)
                     /\ entry # <<>>
                  THEN addUniqueEntry(st.entries, entry[1]) ELSE st.entries,
      enclosingCandidate |-> IF closer THEN node ELSE st.enclosingCandidate,
      enclosingCandidateWidth |-> IF closer THEN width ELSE st.enclosingCandidateWidth]

RECURSIVE visitTsNode(_, _, _, _, _, _, _, _)
\* the walk from node on, in visiting order
visitTsNode(sf, node, st, selectionStart, selectionEnd, focusPos, relativePath, lineText) ==
  IF node > Len(sf.nodes) THEN st
  ELSE visitTsNode(sf, node + 1,
                   VisitOne(sf, node, st, selectionStart, selectionEnd, focusPos,
                            relativePath, lineText),
                   selectionStart, selectionEnd, focusPos, relativePath, lineText)

RECURSIVE findEnclosingTypeScriptLabel(_, _, _, _)
\* a label taken from the candidate itself, its ancestors left out
findEnclosingTypeScriptLabel_NoWalk(sf, node, relativePath, lineText) ==
  IF node # 0 /\ sf.nodes[node].kind = "PropertyAccessExpression"
  THEN Some(NodeText(sf, node))
  ELSE Null

findEnclosingTypeScriptLabel(sf, node, relativePath, lineText) ==
  LET entry == getTypeScriptEntryFromNode(sf, node, relativePath, lineText)
  IN IF node = 0 THEN Null
     ELSE IF sf.nodes[node].kind = "PropertyAccessExpression" THEN Some(NodeText(sf, node))
     ELSE IF entry # <<>> /\ Truthy(entry[1].label) THEN entry[1].label
     ELSE findEnclosingTypeScriptLabel(sf, sf.nodes[node].parent, relativePath, lineText)

\* addTypeScriptEntries after the walk: the entries of the state, or the one
\* entry of the enclosing candidate, or none
EntriesAfterWalk(state, sf, relativePath, lineText) ==
  IF Len(state.entries) > 0 THEN state.entries
  ELSE IF state.enclosingCandidate # 0
  THEN <<Entry(relativePath, lineText,
               findEnclosingTypeScriptLabel(sf, state.enclosingCandidate, relativePath,
                                            lineText))>>
  ELSE <<>>

addTypeScriptEntries(relativePath, lineText, sf, selectionStart, selectionEnd, focusPos) ==
  EntriesAfterWalk(visitTsNode(sf, 1, NewTraversal, selectionStart, selectionEnd, focusPos,
                               relativePath, lineText),
                   sf, relativePath, lineText)

-----------------------------------------------------------------------------
(* references.ts: the orchestrator *)

\* the extension as written, upper case kept
normalizedExtension_CaseSensitive(fileName) == ExtName(fileName)

normalizedExtension(fileName) == ToLower(ExtName(fileName))

\* the entries the strategy for the extension gives (none when it has none)
StrategyEntries(extension, relativePath, lineText, file, selection, range) ==
  IF extension = ".py"
  THEN addPythonEntries(relativePath, lineText, file.text,
                        IF selection.isEmpty THEN ""
                        ELSE Slice(file.text, selection.startOffset, selection.endOffset),
                        range.startLine, range.endLine, range.startLine)
  ELSE IF extension \in {".ts", ".tsx", ".js", ".jsx"}
  THEN addTypeScriptEntries(relativePath, lineText, file.sf, selection.startOffset,
                            selection.endOffset, selection.startOffset)
  ELSE IF extension \in {".html", ".htm"}
  THEN addHtmlEntries(relativePath, lineText, file.text, selection.startOffset)
  ELSE <<>>

\* no fallback entry
WithFallback_Nothing(entries_, relativePath, lineText) == entries_

\* if (entries.length === 0) entries.push({relativePath, lineText, label: null})
WithFallback(entries_, relativePath, lineText) ==
  IF Len(entries_) = 0 THEN <<Entry(relativePath, lineText, Null)>> ELSE entries_

\* the label suffix written for an absent label too
RenderEntry_AlwaysSpace(entry) ==
  entry.relativePath \o ":" \o entry.lineText \o " "
    \o (IF Truthy(entry.label) THEN entry.label[1] ELSE "")

\* `${entry.relativePath}:${entry.lineText}${labelSuffix}`
RenderEntry(entry) ==
  entry.relativePath \o ":" \o entry.lineText
    \o (IF Truthy(entry.label) THEN " " \o entry.label[1] ELSE "")

RECURSIVE UniqueLines_KeepAll(_, _, _)
\* every line pushed, seen or not
UniqueLines_KeepAll(entries_, i, seen) ==
  IF i > Len(entries_) THEN seen
  ELSE UniqueLines_KeepAll(entries_, i + 1, Append(seen, RenderEntry(entries_[i])))

RECURSIVE UniqueLines(_, _, _)
\* the for loop of formatEntries from entry i on: a line already seen is skipped
UniqueLines(entries_, i, seen) ==
  IF i > Len(entries_) THEN seen
  ELSE LET line == RenderEntry(entries_[i])
       IN UniqueLines(entries_, i + 1,
                      IF \E k \in 1..Len(seen) : seen[k] = line THEN seen
                      ELSE Append(seen, line))

formatEntries(entries_) == Join(UniqueLines(entries_, 1, <<>>), "\n")

\* startLine === endLine ? `${startLine + 1}` : `${startLine + 1}-${endLine + 1}`
\* for the line range of the selection
SelectionLineText(range) == LineText(range.startLine, range.endLine)

-----------------------------------------------------------------------------
(* folderFavorites.ts: the FavoritesManager *)

SLOT_COUNT == 5
SlotIndexes == 0..(SLOT_COUNT - 1)

\* null in a slot and undefined in workspaceState, what is there being
\* wrapped as the labels are; no addFavorite call yet
NoSlot == Null
Unset == Null
NoResult == "none"

\* path.basename of a path written with "/"
Basename(folderPath) == Slice(folderPath, LastIndexOf(folderPath, "/", Len(folderPath)) + 1, Len(folderPath))
FavoriteSlot(folderPath) == Some([path |-> folderPath, name |-> Basename(folderPath)])

isSlotEmpty(slot) == slot = NoSlot
slotHasPath(targetPath, slot) == slot # NoSlot /\ slot[1].path = targetPath

\* Array(SLOT_COUNT).fill(null)
EmptySlots == [i \in SlotIndexes |-> NoSlot]

\* load(): the stored slots when there are SLOT_COUNT of them, else empty slots
load(stored) ==
  IF stored # Unset /\ DOMAIN stored[1] = SlotIndexes THEN stored[1] ELSE EmptySlots

\* updateAllVisibility(): a slot's context key is set exactly when it is taken
updateAllVisibility(data) == [i \in SlotIndexes |-> data[i] # NoSlot]

\* this.slots.findIndex(createSlotPathMatcher(folderPath)), -1 when none
findPathIndex(data, folderPath) ==
  IF \E i \in SlotIndexes : slotHasPath(folderPath, data[i])
  THEN CHOOSE i \in SlotIndexes :
         /\ slotHasPath(folderPath, data[i])
         /\ \A j \in SlotIndexes : slotHasPath(folderPath, data[j]) => i <= j
  ELSE -1

\* an index search that returns the last empty slot
findEmptyIndex_Last(data) ==
  IF \E i \in SlotIndexes : isSlotEmpty(data[i])
  THEN CHOOSE i \in SlotIndexes :
         /\ isSlotEmpty(data[i])
         /\ \A j \in SlotIndexes : isSlotEmpty(data[j]) => j <= i
  ELSE -1

\* this.slots.findIndex(isSlotEmpty), -1 when none
findEmptyIndex(data) ==
  IF \E i \in SlotIndexes : isSlotEmpty(data[i])
  THEN CHOOSE i \in SlotIndexes :
         /\ isSlotEmpty(data[i])
         /\ \A j \in SlotIndexes : isSlotEmpty(data[j]) => i <= j
  ELSE -1

\* no manager: the state of these variables while other commands are looked at
FavIdle ==
  /\ slots = EmptySlots
  /\ storage = Unset
  /\ visible = [i \in SlotIndexes |-> FALSE]
  /\ addResult = NoResult
  /\ lastCall = <<"idle">>

-----------------------------------------------------------------------------
(* The files open in the editor *)

Id(role, name) == Nd("Identifier", role, <<Tk(name)>>)
Num(role, text) == Nd("NumericLiteral", role, <<Tk(text)>>)
EmptyBlock == Nd("Block", "body", <<Tk("{}")>>)
\* name() {}
Method(name) == Nd("MethodDeclaration", "", <<Id("name", name), Tk("() "), EmptyBlock>>)
\* const name = init;
ConstStatement(name, init) ==
  Nd("VariableStatement", "",
     <<Nd("VariableDeclarationList", "declarationList",
          <<Tk("const "),
            Nd("VariableDeclaration", "", <<Id("name", name), Tk(" = "), init>>)>>),
       Tk(";")>>)
\* owner.member
Access(role, owner, member) ==
  Nd("PropertyAccessExpression", role, <<Id("expression", owner), Tk("."), Id("name", member)>>)
\* { k: 1 } and the like
ObjectLiteral(role, members) ==
  Nd("ObjectLiteralExpression", role, <<Tk("{ ")>> \o members \o <<Tk(" }")>>)
Property(name) == Nd("PropertyAssignment", "", <<Id("name", name), Tk(": "), Num("initializer", "1")>>)

MethodNames == {"m", "n"}

\* class C {
\*  a() {}
\*  b() {}
\* }
ClassFile(a, b) ==
  SourceFile(<<Nd("ClassDeclaration", "",
                  <<Tk("class "), Id("name", "C"), Tk(" {\n "), Method(a), Tk("\n "),
                    Method(b), Tk("\n}")>>)>>)

\* (a blank line)
\* const f = () => 1;
\* o.p(1);
ArrowFile ==
  SourceFile(<<Tk("\n"),
               ConstStatement("f",
                 Nd("ArrowFunction", "initializer",
                    <<Tk("() "), Nd("EqualsGreaterThanToken", "equalsGreaterThanToken", <<Tk("=>")>>),
                      Tk(" "), Num("body", "1")>>)),
               Tk("\n"),
               Nd("ExpressionStatement", "",
                  <<Nd("CallExpression", "expression",
                       <<Access("expression", "o", "p"), Tk("("), Num("", "1"), Tk(")")>>),
                    Tk(";")>>)>>)

\* const c = { b() {}, a: 1 };
\* o.c = { k: 1 };
ObjectFile ==
  SourceFile(<<ConstStatement("c", ObjectLiteral("initializer", <<Method("b"), Tk(", "), Property("a")>>)),
               Tk("\n"),
               Nd("ExpressionStatement", "",
                  <<Nd("BinaryExpression", "expression",
                       <<Access("left", "o", "c"), Tk(" "),
                         Nd("EqualsToken", "operatorToken", <<Tk("=")>>), Tk(" "),
                         ObjectLiteral("right", <<Property("k")>>)>>),
                    Tk(";")>>)>>)

NoSourceFile == [text |-> "", nodes |-> <<>>]
TextFile(fileName, text) == [fileName |-> fileName, text |-> text, sf |-> NoSourceFile]
ParsedFile(fileName, sf) == [fileName |-> fileName, text |-> sf.text, sf |-> sf]

Files ==
  {ParsedFile("src/a.ts", ClassFile(a, b)) : a \in MethodNames, b \in MethodNames}
    \cup {ParsedFile("b.js", ArrowFile), ParsedFile("c.TSX", ObjectFile),
          ParsedFile("d.jsx", ArrowFile),
          TextFile("p.py", "class A:\n def m():\n  x\ndef A():\n y\n"),
          TextFile("q.PY", "\nx = A.m\n"),
          TextFile("i.html", "<div><span>x</span></div>"),
          TextFile("j.htm", "x < y\n<!d></p>"),
          TextFile("r.md", "# t\n\nx"),
          TextFile("s/.py", "x\n")}

\* every file with every selection in it, dragged forward or backward
Editors ==
  UNION {{[file |-> f, anchor |-> a, active |-> b] : a, b \in 0..Len(f.text)} : f \in Files}

-----------------------------------------------------------------------------
(* references.ts: generateReferencesCommand invoked again before an earlier   *)
(* invocation has finished.  The code of an invocation runs from one await    *)
(* to the next without interruption; the walk over the tree is taken one      *)
(* callback at a time                                                          *)

MaxCalls == 2
Invocations == 1..MaxCalls

NoEditor == [file |-> TextFile("", ""), anchor |-> 0, active |-> 0]
NoCall == [pc |-> "idle", editor |-> NoEditor, state |-> NewTraversal, node |-> 0, text |-> ""]

CmdIdle ==
  /\ calls = [i \in Invocations |-> NoCall]
  /\ currentTsTraversalState = 0
  /\ running = 0

\* any invocation may take a step at any time
CanRun_Preemptive(i, now) == TRUE

\* the code of invocation i may take a step: nothing else is executing (a
\* command starts, or goes on after its await), or it is the one executing
CanRun(i, now) == now = 0 \/ now = i

RECURSIVE SubtreeEnd(_, _, _)
\* the first node from k on that lies outside the subtree of node
SubtreeEnd(sf, node, k) ==
  IF k > Len(sf.nodes) \/ sf.nodes[k].parent < node THEN k
  ELSE SubtreeEnd(sf, node, k + 1)

\* a two-statement file with the cursor in a name, in a call, or everything
\* selected, and a one-statement file with the cursor at the end
CmdEditors ==
  LET b == ParsedFile("b.js", ArrowFile)
      c == ParsedFile("c.TSX", ObjectFile)
  IN  {[file |-> b, anchor |-> 7, active |-> 7],
       [file |-> b, anchor |-> 21, active |-> 21],
       [file |-> b, anchor |-> 0, active |-> Len(b.text)],
       [file |-> c, anchor |-> Len(c.text), active |-> Len(c.text)]}

\* selectionStart, selectionEnd (= focusPos's source) and lineText of a call
CallSelection(c) == Selection(c.editor.file.text, c.editor.anchor, c.editor.active)
CallLineText(c) == SelectionLineText(getSelectionLineRange(CallSelection(c)))

\* the command is invoked on an editor: buildReferencesText up to the visit of
\* the SourceFile node, which gets the new state as its argument
Invoke(i, ed) ==
  /\ CanRun(i, running)
  /\ calls[i].pc = "idle"
  /\ calls' = [calls EXCEPT ![i] =
                [pc |-> "walk", editor |-> ed, node |-> 2, text |-> "",
                 state |-> VisitOne(ed.file.sf, 1, NewTraversal,
                                    Min(ed.anchor, ed.active), Max(ed.anchor, ed.active),
                                    Min(ed.anchor, ed.active), ed.file.fileName,
                                    CallLineText([editor |-> ed]))]]
  /\ currentTsTraversalState' = i
  /\ running' = i
  /\ UNCHANGED <<refVars, htmlVars, favVars, barVars>>

\* tsForEachChildCallback on the next child: nothing (the child's subtree is
\* left out) when the module variable is null, else visitTsNode on the state
\* it refers to
VisitChild(i) ==
  /\ CanRun(i, running)
  /\ calls[i].pc = "walk"
  /\ calls[i].node <= Len(calls[i].editor.file.sf.nodes)
  /\ calls' =
       IF currentTsTraversalState = 0
       THEN [calls EXCEPT ![i].node = SubtreeEnd(calls[i].editor.file.sf, @, @ + 1)]
       ELSE [calls EXCEPT
               ![currentTsTraversalState].state =
                  VisitOne(calls[i].editor.file.sf, calls[i].node, @,
                           CallSelection(calls[currentTsTraversalState]).startOffset,
                           CallSelection(calls[currentTsTraversalState]).endOffset,
                           CallSelection(calls[currentTsTraversalState]).startOffset,
                           calls[currentTsTraversalState].editor.file.fileName,
                           CallLineText(calls[currentTsTraversalState])),
               ![i].node = @ + 1]
  /\ running' = i
  /\ UNCHANGED <<currentTsTraversalState, refVars, htmlVars, favVars, barVars>>

\* the walk has returned: the module variable is set to null, the entries are
\* taken from the state, the text is built, and the command awaits the
\* clipboard
FinishWalk(i) ==
  /\ CanRun(i, running)
  /\ calls[i].pc = "walk"
  /\ calls[i].node > Len(calls[i].editor.file.sf.nodes)
  /\ currentTsTraversalState' = 0
  /\ calls' = [calls EXCEPT
                 ![i].pc = "await",
                 ![i].text =
                    formatEntries(WithFallback(
                      EntriesAfterWalk(calls[i].state, calls[i].editor.file.sf,
                                       calls[i].editor.file.fileName, CallLineText(calls[i])),
                      calls[i].editor.file.fileName, CallLineText(calls[i])))]
  /\ running' = 0
  /\ UNCHANGED <<refVars, htmlVars, favVars, barVars>>

\* await vscode.env.clipboard.writeText(referencesText) is through
WriteClipboard(i) ==
  /\ CanRun(i, running)
  /\ calls[i].pc = "await"
  /\ clipboard' = calls[i].text
  /\ calls' = [calls EXCEPT ![i].pc = "done"]
  /\ running' = 0
  /\ UNCHANGED <<editor, strategyEntries, entries, refPc, pyBlocks, currentTsTraversalState,
                 htmlVars, favVars, barVars>>

-----------------------------------------------------------------------------
(* statusBarFavorites.ts (src/unnamed/part_000): the StatusBarFavoritesManager *)
(* and the manage command, whose quick pick stays open while other commands    *)
(* run                                                                          *)

MAX_STATUS_BAR_FAVORITES == 5
MaxManageCalls == 2
ManageCalls == 1..MaxManageCalls

StatusBarFavorite(folderPath) == [path |-> folderPath, name |-> Basename(folderPath)]
\* createQuickPickItem(item, index)
createQuickPickItem(item, index) ==
  [label |-> "$(folder) " \o item.name, description |-> item.path, index |-> index]
NoPick == [pc |-> "idle", shown |-> <<>>, selected |-> Null]

BarIdle ==
  /\ items = <<>>
  /\ quickPick = [c \in ManageCalls |-> NoPick]

\* removeFavorite(index): nothing for an index out of range, else
\* this.items.splice(index, 1) (index 0-based)
removeStatusBarFavorite(list, index) ==
  IF index < 0 \/ index >= Len(list) THEN list
  ELSE SubSeq(list, 1, index) \o SubSeq(list, index + 2, Len(list))

-----------------------------------------------------------------------------
(* The texts the format command is run on *)

MaxChars == 4
MaxPieces == 3
MaxNest == 6

RECURSIVE SeqsUpTo(_, _)
\* the sequences over S of length at most n
SeqsUpTo(S, n) ==
  IF n = 0 THEN {<<>>}
  ELSE LET shorter == SeqsUpTo(S, n - 1)
       IN shorter \cup {Append(s, x) : s \in {t \in shorter : Len(t) = n - 1}, x \in S}

OpenTag(n) == "<" \o n \o ">"
CloseTag(n) == "</" \o n \o ">"

\* element names that are neither void nor raw-text
PlainNames == {"p", "pre"}
TextPieces == {"a", "a\nb"}

\* markup typed character by character, well-formed or not
CharPieces == {"<", ">", "/", "!", "-", "p", " "}
\* whole tags, comments and text, in any order
TagPieces ==
  {OpenTag("p"), CloseTag("p"), OpenTag("br"), CloseTag("br"), OpenTag("script"),
   CloseTag("script"), OpenTag("pre"), "<!--c-->", "<!d>", "a", "a\nb"}
\* open tags, close tags and text of plain elements
NestPieces == {OpenTag(n) : n \in PlainNames} \cup {CloseTag(n) : n \in PlainNames} \cup TextPieces

IsOpenPiece(x) == \E n \in PlainNames : x = OpenTag(n)
IsClosePiece(x) == \E n \in PlainNames : x = CloseTag(n)
PieceName(x) == CHOOSE n \in PlainNames : x = OpenTag(n) \/ x = CloseTag(n)

RECURSIVE MatchedFrom(_, _, _)
\* the pieces from index i on close every element open in stack, in order,
\* and open and close only properly nested elements
MatchedFrom(ps, i, stack) ==
  IF i > Len(ps) THEN Len(stack) = 0
  ELSE IF IsOpenPiece(ps[i]) THEN MatchedFrom(ps, i + 1, Append(stack, PieceName(ps[i])))
  ELSE IF IsClosePiece(ps[i])
       THEN /\ Len(stack) > 0
            /\ stack[Len(stack)] = PieceName(ps[i])
            /\ MatchedFrom(ps, i + 1, SubSeq(stack, 1, Len(stack) - 1))
  ELSE ps[i] \in TextPieces /\ MatchedFrom(ps, i + 1, stack)

\* ps is text and properly matched open/close pairs of plain elements
IsMatchedPairs(ps) == MatchedFrom(ps, 1, <<>>)

HtmlSources ==
  SeqsUpTo(CharPieces, MaxChars)
    \cup SeqsUpTo(TagPieces, MaxPieces)
    \cup {ps \in SeqsUpTo(NestPieces, MaxNest) : IsMatchedPairs(ps)}

-----------------------------------------------------------------------------
(* formatHtml, one loop iteration at a time; the command may be run again on  *)
(* its own result                                                              *)

StartFormat(text) ==
  /\ html' = text
  /\ pos' = 0
  /\ tokens' = <<>>
  /\ phase' = "tokenize"
  /\ ri' = 1
  /\ depth' = 0
  /\ tagStack' = <<>>
  /\ lines' = <<>>
  /\ out' = ""

\* no editor is looked at
RefIdle ==
  /\ editor = [file |-> TextFile("", ""), anchor |-> 0, active |-> 0]
  /\ strategyEntries = <<>>
  /\ entries = <<>>
  /\ clipboard = ""
  /\ refPc = "idle"
  /\ pyBlocks = <<>>

InitHtml ==
  /\ RefIdle
  /\ FavIdle
  /\ CmdIdle
  /\ BarIdle
  /\ src \in HtmlSources
  /\ html = Join(src, "")
  /\ pos = 0
  /\ tokens = <<>>
  /\ phase = "tokenize"
  /\ ri = 1
  /\ depth = 0
  /\ tagStack = <<>>
  /\ lines = <<>>
  /\ out = ""
  /\ pass = 1
  /\ first = ""

\* tokenize: one iteration of while (pos < html.length)
TokenizeStep ==
  /\ phase = "tokenize"
  /\ pos < Len(html)
  /\ LET it == TokenizeIteration(html, pos)
     IN /\ tokens' = tokens \o it.push
        /\ pos' = it.pos
        /\ phase' = IF it.brk THEN "render" ELSE "tokenize"
  /\ UNCHANGED <<src, html, ri, depth, tagStack, lines, out, pass, first>>
  /\ UNCHANGED <<refVars, favVars, cmdVars, barVars>>

\* tokenize: the loop condition fails, return tokens
TokenizeReturn ==
  /\ phase = "tokenize"
  /\ pos >= Len(html)
  /\ phase' = "render"
  /\ UNCHANGED <<src, html, pos, tokens, ri, depth, tagStack, lines, out, pass, first>>
  /\ UNCHANGED <<refVars, favVars, cmdVars, barVars>>

\* render: one iteration of for (i < tokens.length)
RenderStep ==
  /\ phase = "render"
  /\ ri <= Len(tokens)
  /\ LET it == RenderIteration(tokens, ri, depth, tagStack)
     IN /\ lines' = lines \o it.push
        /\ ri' = it.next
        /\ depth' = it.depth
        /\ tagStack' = it.stack
  /\ UNCHANGED <<src, html, pos, tokens, phase, out, pass, first>>
  /\ UNCHANGED <<refVars, favVars, cmdVars, barVars>>

\* render: return lines.join('\n')
RenderReturn ==
  /\ phase = "render"
  /\ ri > Len(tokens)
  /\ out' = Join(lines, "\n")
  /\ phase' = "done"
  /\ UNCHANGED <<src, html, pos, tokens, ri, depth, tagStack, lines, pass, first>>
  /\ UNCHANGED <<refVars, favVars, cmdVars, barVars>>

\* formatHtmlCommand once more, on the text the first run put in the document
FormatAgain ==
  /\ phase = "done"
  /\ pass = 1
  /\ pass' = 2
  /\ first' = out
  /\ StartFormat(out)
  /\ UNCHANGED <<src, refVars, favVars, cmdVars, barVars>>

NextHtml == TokenizeStep \/ TokenizeReturn \/ RenderStep \/ RenderReturn \/ FormatAgain

SpecHtml == InitHtml /\ [][NextHtml]_vars

-----------------------------------------------------------------------------
(* formatHtml over text inside and outside whitespace-preserving elements     *)

MaxPrePieces == 4

\* a whitespace-preserving element, an inline element, and text with a
\* carriage return or a line feed inside
PrePieces == {"<pre>", "</pre>", "<b>", "</b>", "a\rb", "a\nb", "a"}
PreSources == SeqsUpTo(PrePieces, MaxPrePieces)

InitPre ==
  /\ RefIdle
  /\ FavIdle
  /\ CmdIdle
  /\ BarIdle
  /\ src \in PreSources
  /\ html = Join(src, "")
  /\ pos = 0
  /\ tokens = <<>>
  /\ phase = "tokenize"
  /\ ri = 1
  /\ depth = 0
  /\ tagStack = <<>>
  /\ lines = <<>>
  /\ out = ""
  /\ pass = 1
  /\ first = ""

SpecPre == InitPre /\ [][NextHtml]_vars

-----------------------------------------------------------------------------
(* tokenize of src/unnamed/part_001, one loop iteration at a time              *)

MaxAltPieces == 3

\* text with a '<' that starts nothing, a lone '<', tags, a comment
AltPieces == {"a < b", "<", ">", "a", "<p>", "</p>", "<!--c-->"}
AltSources == SeqsUpTo(AltPieces, MaxAltPieces)

InitAlt ==
  /\ RefIdle
  /\ FavIdle
  /\ CmdIdle
  /\ BarIdle
  /\ src \in AltSources
  /\ html = Join(src, "")
  /\ pos = 0
  /\ tokens = <<>>
  /\ phase = "tokenize"
  /\ ri = 1
  /\ depth = 0
  /\ tagStack = <<>>
  /\ lines = <<>>
  /\ out = ""
  /\ pass = 1
  /\ first = ""

\* one iteration of while (pos < html.length)
AltTokenizeStep ==
  /\ phase = "tokenize"
  /\ pos < Len(html)
  /\ LET it == AltTokenizeIteration(html, pos)
     IN /\ tokens' = tokens \o it.push
        /\ pos' = it.pos
        /\ phase' = IF it.brk THEN "tokenized" ELSE "tokenize"
  /\ UNCHANGED <<src, html, ri, depth, tagStack, lines, out, pass, first>>
  /\ UNCHANGED <<refVars, favVars, cmdVars, barVars>>

\* the loop condition fails: return tokens
AltTokenizeReturn ==
  /\ phase = "tokenize"
  /\ pos >= Len(html)
  /\ phase' = "tokenized"
  /\ UNCHANGED <<src, html, pos, tokens, ri, depth, tagStack, lines, out, pass, first>>
  /\ UNCHANGED <<refVars, favVars, cmdVars, barVars>>

NextAlt == AltTokenizeStep \/ AltTokenizeReturn

SpecAlt == InitAlt /\ [][NextAlt]_vars

-----------------------------------------------------------------------------
(* formatHtml over void, self-closed and raw-text tags                         *)

MaxMarkupPieces == 3

\* void tags in either case and with a closing slash, a self-closed plain tag
\* and a self-closed script, a plain element, and style/script tags with
\* close tags in another case and with a blank before the '>'
MarkupPieces ==
  {"<BR>", "<br/>", "<p/>", "<script/>", "<p>", "</p>", "a",
   "<script>", "<STYLE a>", "</SCRIPT >", "</style>"}
MarkupSources == SeqsUpTo(MarkupPieces, MaxMarkupPieces)

InitMarkup ==
  /\ RefIdle
  /\ FavIdle
  /\ CmdIdle
  /\ BarIdle
  /\ src \in MarkupSources
  /\ html = Join(src, "")
  /\ pos = 0
  /\ tokens = <<>>
  /\ phase = "tokenize"
  /\ ri = 1
  /\ depth = 0
  /\ tagStack = <<>>
  /\ lines = <<>>
  /\ out = ""
  /\ pass = 1
  /\ first = ""

SpecMarkup == InitMarkup /\ [][NextHtml]_vars

-----------------------------------------------------------------------------
(* generateReferencesCommand on the active editor *)

\* the formatter is not running
HtmlIdle ==
  /\ src = <<>>
  /\ html = ""
  /\ pos = 0
  /\ tokens = <<>>
  /\ phase = "idle"
  /\ ri = 1
  /\ depth = 0
  /\ tagStack = <<>>
  /\ lines = <<>>
  /\ out = ""
  /\ pass = 0
  /\ first = ""

Init ==
  /\ HtmlIdle
  /\ FavIdle
  /\ CmdIdle
  /\ BarIdle
  /\ editor \in Editors
  /\ strategyEntries = <<>>
  /\ entries = <<>>
  /\ clipboard = ""
  /\ refPc = "ready"
  /\ pyBlocks = <<>>

\* the selection of the editor, and the text that names its lines
EditorSelection == Selection(editor.file.text, editor.anchor, editor.active)
EditorLineText == SelectionLineText(getSelectionLineRange(EditorSelection))

\* the command: buildReferencesText (the strategy for the extension, the
\* fallback entry, formatEntries), then clipboard.writeText; the relative path
\* of a file is its name
GenerateReferences ==
  /\ refPc = "ready"
  /\ strategyEntries' = StrategyEntries(normalizedExtension(editor.file.fileName),
                                        editor.file.fileName, EditorLineText, editor.file,
                                        EditorSelection,
                                        getSelectionLineRange(EditorSelection))
  /\ entries' = WithFallback(strategyEntries', editor.file.fileName, EditorLineText)
  /\ clipboard' = formatEntries(entries')
  /\ pyBlocks' = IF normalizedExtension(editor.file.fileName) = ".py"
                 THEN parsePythonBlocks(editor.file.text) ELSE <<>>
  /\ refPc' = "copied"
  /\ UNCHANGED <<editor, htmlVars, favVars, cmdVars, barVars>>

Next == GenerateReferences

Spec == Init /\ [][Next]_vars

-----------------------------------------------------------------------------
(* Reference generation over markup built from pieces, the cursor anywhere   *)

MaxTagPieces == 3

\* opening tags, a closing tag, a declaration, a processing instruction, a
\* "<" that is followed by white space, and text
LocatorPieces == {"<d>", "<s>", "</s>", "<!c>", "<?p>", "< b", "x"}
LocatorTexts ==
  {Join(ps, "") : ps \in SeqsUpTo(LocatorPieces, MaxTagPieces)}
    \cup {"<div><span>x</span></div>"}

\* one of the texts is open, the cursor anywhere in it
InitTag ==
  /\ HtmlIdle
  /\ FavIdle
  /\ CmdIdle
  /\ BarIdle
  /\ \E t \in LocatorTexts : \E c \in 0..Len(t) :
       editor = [file |-> TextFile("t.html", t), anchor |-> c, active |-> c]
  /\ strategyEntries = <<>>
  /\ entries = <<>>
  /\ clipboard = ""
  /\ refPc = "ready"
  /\ pyBlocks = <<>>

SpecTag == InitTag /\ [][Next]_vars

-----------------------------------------------------------------------------
(* Reference generation over Python text built from lines                    *)

MaxPyLines == 3

\* a class header, a method header, a def nested in the method, a statement
\* inside a body, a statement at the margin, a blank line and a comment at the
\* margin
PyLinePool ==
  {"class A:", " def m():", "  def n():", "  a.b", "y", "", "# class A"}
FiveLineExample == "class A:\n    def m(self):\n        pass\ndef top():\n    pass"
PyTexts ==
  {Join(ls, "\n") : ls \in SeqsUpTo(PyLinePool, MaxPyLines)} \cup {FiveLineExample}

\* the offsets where the lines of a text start
LineStarts(text) == {0} \cup {i + 1 : i \in {j \in 0..(Len(text) - 1) : At(text, j) = "\n"}}
\* the offsets where the lines of a text end
LineEnds(text) == {Len(text)} \cup {j \in 0..(Len(text) - 1) : At(text, j) = "\n"}
\* the offsets where a word starts behind a blank
WordStarts(text) ==
  {i \in 1..(Len(text) - 1) : At(text, i - 1) = " " /\ At(text, i) \notin {" ", "\n"}}
\* the end of the line that holds offset i
LineEndFrom(text, i) == CHOOSE e \in LineEnds(text) : e >= i /\ \A f \in LineEnds(text) : f >= i => e <= f

\* a cursor at a line start, whole lines from a line start to a line end, or
\* the rest of a line from a word start
PySelections(text) ==
  {<<a, a>> : a \in LineStarts(text)}
    \cup {<<a, b>> \in LineStarts(text) \X LineEnds(text) : a < b}
    \cup {<<a, LineEndFrom(text, a)>> : a \in WordStarts(text)}

\* one of the texts is open, with one of its selections
InitPy ==
  /\ HtmlIdle
  /\ FavIdle
  /\ CmdIdle
  /\ BarIdle
  /\ \E t \in PyTexts : \E sel \in PySelections(t) :
       editor = [file |-> TextFile("g.py", t), anchor |-> sel[1], active |-> sel[2]]
  /\ strategyEntries = <<>>
  /\ entries = <<>>
  /\ clipboard = ""
  /\ refPc = "ready"
  /\ pyBlocks = <<>>

SpecPy == InitPy /\ [][Next]_vars

-----------------------------------------------------------------------------
(* Reference generation over TS/JS files built from statements               *)

MaxStatements == 2

ExpressionStatement(expression) == Nd("ExpressionStatement", "", <<expression, Tk(";")>>)
\* left op right
Binary(left, opKind, op, right) ==
  Nd("BinaryExpression", "expression",
     <<left, Tk(" "), Nd(opKind, "operatorToken", <<Tk(op)>>), Tk(" "), right>>)
\* callee(argument)
Call(callee, argument) == Nd("CallExpression", "expression", <<callee, Tk("("), argument, Tk(")")>>)
Arrow == Nd("EqualsGreaterThanToken", "equalsGreaterThanToken", <<Tk("=>")>>)
ReturnOne == Nd("ReturnStatement", "", <<Tk("return "), Num("expression", "1"), Tk(";")>>)

\* const foo = () => { return 1; };
\* const g = function () {};
\* const cfg = { build() {} };
\* o.c = { k: 1 };
\* x = { k: 1 };
\* f({ k: 1 });
\* u || { k: 1 };
\* o.p(1);
StatementPool ==
  {ConstStatement("foo", Nd("ArrowFunction", "initializer",
                            <<Tk("() "), Arrow, Tk(" "),
                              Nd("Block", "body", <<Tk("{ "), ReturnOne, Tk(" }")>>)>>)),
   ConstStatement("g", Nd("FunctionExpression", "initializer", <<Tk("function () "), EmptyBlock>>)),
   ConstStatement("cfg", ObjectLiteral("initializer", <<Method("build")>>)),
   ExpressionStatement(Binary(Access("left", "o", "c"), "EqualsToken", "=",
                              ObjectLiteral("right", <<Property("k")>>))),
   ExpressionStatement(Binary(Id("left", "x"), "EqualsToken", "=",
                              ObjectLiteral("right", <<Property("k")>>))),
   ExpressionStatement(Call(Id("expression", "f"), ObjectLiteral("", <<Property("k")>>))),
   ExpressionStatement(Binary(Id("left", "u"), "BarBarToken", "||",
                              ObjectLiteral("right", <<Property("k")>>))),
   ExpressionStatement(Call(Access("expression", "o", "p"), Num("", "1")))}

\* a statement parsed on its own: its text and its nodes, the statement first
StatementParse(statement) == FlattenNode(statement, 0, [text |-> "", nodes |-> <<>>])
\* the nodes of a statement that follows byNodes nodes and byChars characters
\* of a source file, whose node 1 holds the statement
Shifted(nodes, byNodes, byChars) ==
  [j \in 1..Len(nodes) |->
     [nodes[j] EXCEPT !.start = @ + byChars, !.end = @ + byChars,
                      !.parent = IF @ = 0 THEN 1 ELSE @ + byNodes]]

RECURSIVE AppendStatements(_, _, _)
\* the statements from the k-th on, one to a line, behind acc = [text, nodes]
AppendStatements(ss, k, acc) ==
  IF k > Len(ss) THEN acc
  ELSE LET parsed == StatementParse(ss[k])
           before == IF k > 1 THEN acc.text \o "\n" ELSE acc.text
       IN AppendStatements(ss, k + 1,
                           [text |-> before \o parsed.text,
                            nodes |-> acc.nodes \o Shifted(parsed.nodes, Len(acc.nodes), Len(before))])

\* the SourceFile of the statements, one to a line
SourceFileOfStatements(ss) ==
  LET root == [kind |-> "SourceFile", role |-> "", start |-> 0, end |-> 0, parent |-> 0]
      body == AppendStatements(ss, 1, [text |-> "", nodes |-> <<root>>])
      n == Len(body.text)
  IN [text |-> body.text,
      nodes |-> Append([body.nodes EXCEPT ![1].start = SkipSpaces(body.text, 0), ![1].end = n],
                       [kind |-> "EndOfFileToken", role |-> "endOfFileToken", start |-> n,
                        end |-> n, parent |-> 1])]

TsFiles ==
  {ParsedFile("g.ts", SourceFileOfStatements(ss)) : ss \in SeqsUpTo(StatementPool, MaxStatements)}

\* a cursor anywhere, or exactly the text of one node
TsSelections(f) ==
  {<<c, c>> : c \in 0..Len(f.text)}
    \cup {<<f.sf.nodes[i].start, f.sf.nodes[i].end>> : i \in 1..Len(f.sf.nodes)}

\* one of the files is open, with one of its selections
InitTs ==
  /\ HtmlIdle
  /\ FavIdle
  /\ CmdIdle
  /\ BarIdle
  /\ \E f \in TsFiles : \E sel \in TsSelections(f) :
       editor = [file |-> f, anchor |-> sel[1], active |-> sel[2]]
  /\ strategyEntries = <<>>
  /\ entries = <<>>
  /\ clipboard = ""
  /\ refPc = "ready"
  /\ pyBlocks = <<>>

SpecTs == InitTs /\ [][Next]_vars

-----------------------------------------------------------------------------
(* The favorites manager: folders are added and removed in any order         *)

MaxFolders == 5

FolderNames == <<"a", "b", "c", "d", "e", "f", "g", "h">>
\* folders of one directory, and a folder of another with the name of one of them
FolderPaths == {"/w/" \o FolderNames[i] : i \in 1..MaxFolders} \cup {"/v/a"}
\* the slot indexes a remove command may carry, one below and one above included
RemoveIndexes == (-1)..SLOT_COUNT

\* new FavoritesManager(context) on a workspace that has stored nothing
InitFav ==
  /\ HtmlIdle
  /\ RefIdle
  /\ CmdIdle
  /\ BarIdle
  /\ storage = Unset
  /\ slots = load(storage)
  /\ visible = updateAllVisibility(slots)
  /\ addResult = NoResult
  /\ lastCall = <<"new">>

\* addFavorite(uri): false when the path is stored already or no slot is
\* empty; else the first empty slot takes the folder, and the slots are saved
AddFavorite(folderPath) ==
  /\ lastCall' = <<"add", folderPath>>
  /\ IF findPathIndex(slots, folderPath) # -1 \/ findEmptyIndex(slots) = -1
     THEN /\ addResult' = FALSE
          /\ UNCHANGED <<slots, storage, visible>>
     ELSE /\ slots' = [slots EXCEPT ![findEmptyIndex(slots)] = FavoriteSlot(folderPath)]
          /\ storage' = Some(slots')
          /\ visible' = [visible EXCEPT ![findEmptyIndex(slots)] = TRUE]
          /\ addResult' = TRUE
  /\ UNCHANGED <<refVars, htmlVars, cmdVars, barVars>>

\* removeFavorite(slotIndex): nothing for an index out of range or an empty
\* slot; else the slot is emptied and the slots are saved
RemoveFavorite(slotIndex) ==
  /\ lastCall' = <<"remove", slotIndex>>
  /\ IF slotIndex < 0 \/ slotIndex >= SLOT_COUNT
     THEN UNCHANGED <<slots, storage, visible>>
     ELSE IF slots[slotIndex] = NoSlot
     THEN UNCHANGED <<slots, storage, visible>>
     ELSE /\ slots' = [slots EXCEPT ![slotIndex] = NoSlot]
          /\ storage' = Some(slots')
          /\ visible' = [visible EXCEPT ![slotIndex] = FALSE]
  /\ UNCHANGED <<addResult, refVars, htmlVars, cmdVars, barVars>>

\* the window is reloaded: a new manager loads what was saved
Reload ==
  /\ lastCall' = <<"new">>
  /\ slots' = load(storage)
  /\ visible' = updateAllVisibility(slots')
  /\ addResult' = NoResult
  /\ UNCHANGED <<storage, refVars, htmlVars, cmdVars, barVars>>

NextFav ==
  \/ \E folderPath \in FolderPaths : AddFavorite(folderPath)
  \/ \E slotIndex \in RemoveIndexes : RemoveFavorite(slotIndex)
  \/ Reload

SpecFav == InitFav /\ [][NextFav]_vars

-----------------------------------------------------------------------------
(* generateReferencesCommand invoked several times, each invocation on its    *)
(* own editor, a later one starting while an earlier one awaits the clipboard *)

InitCmd ==
  /\ HtmlIdle
  /\ RefIdle
  /\ FavIdle
  /\ BarIdle
  /\ CmdIdle

NextCmd ==
  \E i \in Invocations :
    \/ \E ed \in CmdEditors : Invoke(i, ed)
    \/ VisitChild(i)
    \/ FinishWalk(i)
    \/ WriteClipboard(i)

SpecCmd == InitCmd /\ [][NextCmd]_vars

-----------------------------------------------------------------------------
(* The status bar favorites: folders are added, and manage commands open      *)
(* their quick picks, in any order                                             *)

BarFolders == {"/w/a", "/w/b", "/w/c"}

InitBar ==
  /\ HtmlIdle
  /\ RefIdle
  /\ FavIdle
  /\ CmdIdle
  /\ BarIdle

\* addStatusBarFavoriteHandler -> addFavorite(uri): nothing when the path is
\* there already or the bar is full, else the folder goes to the end
AddStatusBarFavorite(folderPath) ==
  /\ \A k \in 1..Len(items) : items[k].path # folderPath
  /\ Len(items) < MAX_STATUS_BAR_FAVORITES
  /\ items' = Append(items, StatusBarFavorite(folderPath))
  /\ UNCHANGED <<quickPick, refVars, htmlVars, favVars, cmdVars>>

\* manageFavoritesHandler up to its await: a message when there are no items,
\* else the quick pick is shown with one entry per item, each holding the
\* item's index at this moment
OpenQuickPick(c) ==
  /\ quickPick[c].pc = "idle"
  /\ quickPick' =
       [quickPick EXCEPT ![c] =
          IF Len(items) = 0 THEN [pc |-> "done", shown |-> <<>>, selected |-> Null]
          ELSE [pc |-> "open",
                shown |-> [k \in 1..Len(items) |-> createQuickPickItem(items[k], k - 1)],
                selected |-> Null]]
  /\ UNCHANGED <<items, refVars, htmlVars, favVars, cmdVars>>

\* the user picks entry k: manager.removeFavorite(selected.index)
PickEntry(c, k) ==
  /\ quickPick[c].pc = "open"
  /\ k \in 1..Len(quickPick[c].shown)
  /\ quickPick' = [quickPick EXCEPT ![c].pc = "done",
                                    ![c].selected = Some(quickPick[c].shown[k])]
  /\ items' = removeStatusBarFavorite(items, quickPick[c].shown[k].index)
  /\ UNCHANGED <<refVars, htmlVars, favVars, cmdVars>>

\* the quick pick is closed without a choice: selected is undefined
DismissQuickPick(c) ==
  /\ quickPick[c].pc = "open"
  /\ quickPick' = [quickPick EXCEPT ![c].pc = "done"]
  /\ UNCHANGED <<items, refVars, htmlVars, favVars, cmdVars>>

NextBar ==
  \/ \E folderPath \in BarFolders : AddStatusBarFavorite(folderPath)
  \/ \E c \in ManageCalls :
       \/ OpenQuickPick(c)
       \/ \E k \in 1..MAX_STATUS_BAR_FAVORITES : PickEntry(c, k)
       \/ DismissQuickPick(c)

SpecBar == InitBar /\ [][NextBar]_vars

-----------------------------------------------------------------------------
(* Properties of reference generation, checked under Spec                   *)

\* the command has run
Copied == refPc = "copied"
EditorPath == editor.file.fileName
EditorRange == getSelectionLineRange(EditorSelection)
ClipboardLines == Split(clipboard, "\n")
NoLabel(e) == e.label = Null
PyFileNames == {"p.py", "q.PY"}
TsFileNames == {"src/a.ts", "b.js", "c.TSX", "d.jsx"}
HtmlFileNames == {"i.html", "j.htm"}

\* C1: reference generation always yields at least one entry; when the
\* strategy gave none, the result is exactly one entry with the path, the
\* selection's line text and no label
C1_FallbackEntry ==
  Copied =>
    /\ Len(entries) >= 1
    /\ strategyEntries = <<>> =>
         /\ Len(entries) = 1
         /\ entries[1].relativePath = EditorPath
         /\ entries[1].lineText = EditorLineText
         /\ NoLabel(entries[1])
         /\ clipboard = EditorPath \o ":" \o EditorLineText

\* an empty selection on the blank first line of b.js: no strategy entry
C1_Witness ==
  /\ Copied
  /\ EditorPath = "b.js" /\ editor.anchor = 0 /\ editor.active = 0
  /\ strategyEntries = <<>>
  /\ Len(entries) = 1 /\ NoLabel(entries[1])

\* the method declarations of a source file, in source order
MethodNodes(sf) ==
  SelectSeq([i \in 1..Len(sf.nodes) |-> i], LAMBDA i : sf.nodes[i].kind = "MethodDeclaration")
\* the 1-based line of a node's start offset
NodeLineText(sf, node) == ToStr(PositionAt(sf.text, sf.nodes[node].start).line + 1)

\* C2 (as stated): when both methods of the class intersect the selection, each
\* entry's line text is the 1-based line on which its own method starts
C2_OwnNodeLine ==
  (Copied /\ EditorPath = "src/a.ts" /\ Len(strategyEntries) = 2) =>
    \A i \in 1..2 :
      strategyEntries[i].lineText = NodeLineText(editor.file.sf, MethodNodes(editor.file.sf)[i])

\* C2 (amended): in a TS/JS file every entry's line text is the line text of
\* the selection, whichever node it was made from
C2_SelectionLineText ==
  (Copied /\ EditorPath \in TsFileNames) =>
    \A i \in 1..Len(strategyEntries) : strategyEntries[i].lineText = EditorLineText

\* two methods that start on lines 2 and 3, both entries with the range 1-4
C2_Witness ==
  /\ Copied
  /\ EditorPath = "src/a.ts"
  /\ Len(strategyEntries) = 2
  /\ NodeLineText(editor.file.sf, MethodNodes(editor.file.sf)[1]) = "2"
  /\ NodeLineText(editor.file.sf, MethodNodes(editor.file.sf)[2]) = "3"
  /\ strategyEntries[1].lineText = "1-4" /\ strategyEntries[2].lineText = "1-4"

\* the whole text of the file is selected, in either direction
WholeFileSelected == {editor.anchor, editor.active} = {0, Len(editor.file.text)}

\* C3: a selection spanning class C with the two methods a and b yields
\* exactly the entries C.a and C.b in this order, none for the class
C3_TwoMethods ==
  \A a, b \in MethodNames :
    (/\ Copied
     /\ a # b
     /\ editor.file = ParsedFile("src/a.ts", ClassFile(a, b))
     /\ WholeFileSelected) =>
      /\ Len(entries) = 2
      /\ entries[1].label = Some("C." \o a)
      /\ entries[2].label = Some("C." \o b)
      /\ Len(ClipboardLines) = 2

C3_Witness ==
  /\ Copied
  /\ editor.file = ParsedFile("src/a.ts", ClassFile("m", "n"))
  /\ editor.anchor = 0 /\ editor.active = Len(editor.file.text)
  /\ clipboard = "src/a.ts:1-4 C.m\nsrc/a.ts:1-4 C.n"

\* the line each entry is rendered as, in entry order
RenderedLines == [i \in 1..Len(entries) |-> RenderEntry(entries[i])]
\* the entries whose rendered line no earlier entry has
FirstOccurrences ==
  {i \in 1..Len(entries) : \A j \in 1..(i - 1) : RenderedLines[j] # RenderedLines[i]}

\* C4: the reference text has no two identical lines, and its lines are the
\* rendered lines of the entries, each once, in the order of first occurrence
C4_UniqueLinesInOrder ==
  Copied =>
    /\ \A i, j \in 1..Len(ClipboardLines) : i # j => ClipboardLines[i] # ClipboardLines[j]
    /\ Len(ClipboardLines) = Cardinality(FirstOccurrences)
    /\ \A i \in FirstOccurrences :
         ClipboardLines[Cardinality({j \in FirstOccurrences : j <= i})] = RenderedLines[i]

\* p.py selected with class A and the function A: two entries render alike
C4_Witness ==
  /\ Copied
  /\ EditorPath = "p.py"
  /\ \E i, j \in 1..Len(entries) : i < j /\ RenderedLines[i] = RenderedLines[j]
  /\ Len(ClipboardLines) < Len(entries)

\* N for one line, start-end for more, 1-based
NumberOrRange(startLine, endLine) ==
  IF startLine = endLine THEN ToStr(startLine + 1)
  ELSE ToStr(startLine + 1) \o "-" \o ToStr(endLine + 1)
\* path:lineText, then a space and the label when there is one
LineOf(e, lineText) ==
  IF NoLabel(e) THEN EditorPath \o ":" \o lineText
  ELSE EditorPath \o ":" \o lineText \o " " \o e.label[1]
\* the lines of the text are the lines of the entries, written with lineText
LinesWritten(lineText) ==
  /\ \A k \in 1..Len(ClipboardLines) :
       \E i \in 1..Len(entries) : ClipboardLines[k] = LineOf(entries[i], lineText)
  /\ \A i \in 1..Len(entries) :
       \E k \in 1..Len(ClipboardLines) : ClipboardLines[k] = LineOf(entries[i], lineText)
  /\ \A i \in 1..Len(entries) : entries[i].lineText = lineText

\* C5 (as stated): every line is path:lineText with " label" exactly for a
\* labelled entry, lineText being N when the selection's start and end lines
\* are equal and start-end otherwise
C5_SelectionLines ==
  Copied => LinesWritten(NumberOrRange(EditorSelection.start.line, EditorSelection.end.line))

\* C5 (amended): the same, with the end line taken one line back when a
\* selection of several lines ends at character 0
C5_LineRange ==
  Copied => LinesWritten(NumberOrRange(EditorRange.startLine, EditorRange.endLine))

\* r.md selected from its start to the start of line 2: the one line "r.md:1"
C5_Witness ==
  /\ Copied
  /\ EditorPath = "r.md"
  /\ EditorSelection.start.line = 0
  /\ EditorSelection.end.line = 1 /\ EditorSelection.end.character = 0
  /\ clipboard = "r.md:1"

\* C6: the strategy is chosen by the lower-cased extension alone: Python for
\* .py, the structural one for .ts/.tsx/.js/.jsx, one entry labelled by the tag
\* locator at the selection start for .html/.htm, none for anything else, whose
\* text is then the one fallback line without a label
C6_DispatchByExtension ==
  Copied =>
    IF EditorPath \in PyFileNames
    THEN strategyEntries =
           addPythonEntries(EditorPath, EditorLineText, editor.file.text,
                            IF EditorSelection.isEmpty THEN ""
                            ELSE Slice(editor.file.text, EditorSelection.startOffset,
                                       EditorSelection.endOffset),
                            EditorRange.startLine, EditorRange.endLine, EditorRange.startLine)
    ELSE IF EditorPath \in TsFileNames
    THEN strategyEntries =
           addTypeScriptEntries(EditorPath, EditorLineText, editor.file.sf,
                                EditorSelection.startOffset, EditorSelection.endOffset,
                                EditorSelection.startOffset)
    ELSE IF EditorPath \in HtmlFileNames
    THEN /\ Len(strategyEntries) = 1
         /\ strategyEntries[1].label =
              findEnclosingHtmlTagName(editor.file.text, EditorSelection.startOffset)
    ELSE /\ strategyEntries = <<>>
         /\ clipboard = EditorPath \o ":" \o EditorLineText

\* A.m selected in q.PY: the Python strategy ran for the extension .PY
C6_Witness ==
  /\ Copied
  /\ EditorPath = "q.PY"
  /\ Len(strategyEntries) = 1
  /\ strategyEntries[1].label = Some("A.m")

-----------------------------------------------------------------------------
(* Properties of formatHtml, checked under SpecHtml                         *)

\* C7: formatting the result of formatting well-formed HTML gives the same
\* text again (text content of several lines included)
C7_Idempotent ==
  (phase = "done" /\ pass = 2 /\ IsMatchedPairs(src)) => out = first

\* the '<' at the cursor starts no comment, doctype, end tag or start tag
LtStartsNothing ==
  /\ At(html, pos) = "<"
  /\ ~StartsWith(html, "<!", pos)
  /\ ~MatchEndTag(html, pos).ok
  /\ ~MatchStartTag(html, pos).ok

C8_Step ==
  /\ (phase = "tokenize" /\ phase' = "tokenize") => (pos' > pos /\ pos' <= Len(html))
  /\ (phase = "tokenize" /\ pos < Len(html) /\ LtStartsNothing) =>
       /\ tokens' = Append(tokens, TextTok("<"))
       /\ pos' = pos + 1
       /\ phase' = "tokenize"
  /\ (phase = "render" /\ phase' = "render") => (ri' > ri /\ ri' <= Len(tokens) + 1)

\* C8: every iteration of tokenize moves the cursor forward or leaves the
\* loop, a '<' that starts nothing known becomes the text token '<' with the
\* cursor moved by one, and the render loop moves forward too, so formatHtml
\* ends on any text
C8_TokenizeAdvances == [][C8_Step]_vars

\* "<" typed before something that is no tag: one text token, cursor at 1
C8_Witness ==
  /\ phase = "tokenize"
  /\ pass = 1
  /\ Len(html) > 1 /\ At(html, 0) = "<" /\ At(html, 1) = " "
  /\ pos = 1
  /\ tokens = <<TextTok("<")>>

\* C9: no endTag token has the name of a void element
C9_NoVoidEndTag ==
  \A i \in 1..Len(tokens) : tokens[i].type = "endTag" => tokens[i].tagName \notin VOID_ELEMENTS

\* render has worked through every token
RenderFinished == (phase = "render" /\ ri > Len(tokens)) \/ phase = "done"

\* C10: for text and properly matched open/close pairs of plain elements,
\* nested in any way, the depth is 0 once the last token is rendered
C10_DepthBackToZero ==
  (RenderFinished /\ IsMatchedPairs(src)) => depth = 0

\* <p><pre>a</pre></p>: p opened and closed around the collapsed pre
C10_Witness ==
  /\ phase = "done"
  /\ pass = 1
  /\ src = <<OpenTag("p"), OpenTag("pre"), "a", CloseTag("pre"), CloseTag("p")>>
  /\ lines = <<"<p>", "  <pre>a</pre>", "</p>">>
  /\ depth = 0

-----------------------------------------------------------------------------
(* Properties of the tag locator, checked under SpecTag                      *)

\* the offset the locator is given: the start of the selection
FocusPos == EditorSelection.startOffset
\* the label of the single entry of the HTML strategy
LocatorLabel == strategyEntries[1].label
\* a "<" at offset i that begins an opening tag: not "</", "<!" or "<?", and,
\* after optional white space, a letter
OpensTag(text, i) ==
  /\ At(text, i) = "<"
  /\ At(text, i + 1) \notin {"/", "!", "?"}
  /\ IsLetter(At(text, SkipSpaces(text, i + 1)))
\* the name that follows the "<" at offset i
TagNameAt(text, i) == Slice(text, SkipSpaces(text, i + 1), NameEnd(text, SkipSpaces(text, i + 1)))
\* the offsets at or below the cursor where an opening tag begins
OpeningsUpTo(text, focus) == {i \in 0..Min(focus, Len(text)) : OpensTag(text, i)}
Greatest(S) == CHOOSE i \in S : \A j \in S : j <= i

C11_SkipsWitness ==
  /\ Copied
  /\ editor.file.text = "<d></s><!c>" /\ FocusPos = 11
  /\ LocatorLabel = Some("d")

\* the offsets below the cursor that hold a "<"
LtBelow(text, focus) == {i \in 0..(Min(focus, Len(text)) - 1) : At(text, i) = "<"}

\* C12 (as stated): the locator returns none whenever no "<" lies at an
\* offset below the cursor, and whenever the backward scan finds no "<" that
\* begins an opening tag
C12_NoneWithoutLt ==
  Copied =>
    /\ LtBelow(editor.file.text, FocusPos) = {} => LocatorLabel = Null
    /\ OpeningsUpTo(editor.file.text, FocusPos) = {} => LocatorLabel = Null

-----------------------------------------------------------------------------
(* Properties of the Python strategy, checked under SpecPy                   *)

\* a line that is neither blank nor a comment
IsCodeLine(line) == Trim(line) # "" /\ At(Trim(line), 0) # "#"
\* a line that opens a block
IsHeaderLine(line) ==
  IsCodeLine(line) /\ (MatchClassHeader(Trim(line)) # Null \/ MatchDefHeader(Trim(line)) # Null)
\* the later code lines whose indentation is at most that of the block; ls
\* holds line L (0-based) at index L + 1
ClosingLines(b, ls) ==
  {L \in (b.startLine + 1)..(Len(ls) - 1) :
     IsCodeLine(ls[L + 1]) /\ getPythonIndent(ls[L + 1]) <= b.indent}
Least(S) == CHOOSE i \in S : \A j \in S : i <= j
Range(b) == <<b.label, b.startLine, b.endLine>>
\* the blocks are one per header line of ls, in line order, each from its
\* header line to the line before its first closing line, or to the last line
RangesFollowIndentation(blocks, ls) ==
  /\ \A i \in 1..Len(blocks) :
       /\ IsHeaderLine(ls[blocks[i].startLine + 1])
       /\ blocks[i].indent = getPythonIndent(ls[blocks[i].startLine + 1])
       /\ blocks[i].endLine =
            IF ClosingLines(blocks[i], ls) = {} THEN Len(ls) - 1
            ELSE Least(ClosingLines(blocks[i], ls)) - 1
  /\ {blocks[i].startLine : i \in 1..Len(blocks)}
       = {L \in 0..(Len(ls) - 1) : IsHeaderLine(ls[L + 1])}
  /\ \A i, j \in 1..Len(blocks) : i < j => blocks[i].startLine < blocks[j].startLine

\* C13: every block parsePythonBlocks returns runs from its header line to
\* the line before the first later non-blank, non-comment line indented at
\* most as far as the header, or to the last line when there is none; the
\* five-line example gives exactly A:0-2, A.m:1-2, top:3-4
C13_BlockRanges ==
  Copied =>
    /\ RangesFollowIndentation(pyBlocks, SplitLines(editor.file.text))
    /\ editor.file.text = FiveLineExample =>
         [i \in 1..Len(pyBlocks) |-> Range(pyBlocks[i])]
           = <<(<<"A", 0, 2>>), (<<"A.m", 1, 2>>), (<<"top", 3, 4>>)>>

\* the five-line example has been parsed
C13_Witness ==
  /\ Copied
  /\ editor.file.text = FiveLineExample
  /\ Len(pyBlocks) = 3
  /\ Range(pyBlocks[1]) = <<"A", 0, 2>>

\* a class closed by a statement at the margin, with a blank line before it
\* that stays inside the class
C13_BlankInsideWitness ==
  /\ Copied
  /\ editor.file.text = "class A:\n\ny"
  /\ Len(pyBlocks) = 1
  /\ pyBlocks[1].endLine = 1

\* the blocks of a type whose header line lies in the line range, in line
\* order
HeadersInRange(type, range) ==
  SelectSeq(pyBlocks, LAMBDA b : /\ b.type = type
                                 /\ b.startLine >= range.startLine
                                 /\ b.startLine <= range.endLine)
LabelsOf(bs) == [i \in 1..Len(bs) |-> Some(bs[i].label)]
EntryLabels == [i \in 1..Len(strategyEntries) |-> strategyEntries[i].label]
\* every entry carries the path and the line text
EntriesAt(relativePath, lineText) ==
  \A i \in 1..Len(strategyEntries) :
    /\ strategyEntries[i].relativePath = relativePath
    /\ strategyEntries[i].lineText = lineText
DefEntriesOnly(range) ==
  HeadersInRange("def", range) # <<>> => EntryLabels = LabelsOf(HeadersInRange("def", range))
HeaderEntries(range) ==
  HeadersInRange("class", range) \o HeadersInRange("def", range) # <<>> =>
    EntryLabels = LabelsOf(HeadersInRange("class", range)) \o LabelsOf(HeadersInRange("def", range))

\* C14 (as stated): when a def header lies in the selection's line range, the
\* strategy's entries are one per such def block, labelled with its qualified
\* label, and there are no other entries
C14_DefEntriesOnly == Copied => DefEntriesOnly(EditorRange)

\* C14 (amended): when a class or def header lies in the selection's line
\* range, the strategy's entries are one per such class block, labelled with
\* the class name, followed by one per such def block, labelled with its
\* qualified label, all with the path and the selection's line text, and
\* there are no other entries
C14_HeaderEntries ==
  Copied => (HeaderEntries(EditorRange) /\ EntriesAt(EditorPath, EditorLineText))

\* a class and its method selected together: the class entry, then the method's
C14_Witness ==
  /\ Copied
  /\ editor.file.text = "class A:\n def m():"
  /\ editor.anchor = 0 /\ editor.active = 18
  /\ EntryLabels = <<Some("A"), Some("A.m")>>

\* the selected text
SelectedText ==
  IF editor.anchor = editor.active THEN ""
  ELSE Slice(editor.file.text, Min(editor.anchor, editor.active), Max(editor.anchor, editor.active))
\* an identifier; identifiers joined by dots, at least two
IsIdentifierText(s) ==
  /\ IsIdentStart(At(s, 0))
  /\ \A i \in 1..(Len(s) - 1) : IsWordChar(At(s, i))
IsDottedChainText(s) ==
  /\ Len(Split(s, ".")) >= 2
  /\ \A i \in 1..Len(Split(s, ".")) : IsIdentifierText(Split(s, ".")[i])
\* the blocks of a type whose range holds the cursor line; the narrowest
BlocksAtCursor(type, cursorLine) ==
  {i \in 1..Len(pyBlocks) : /\ pyBlocks[i].type = type
                            /\ cursorLine >= pyBlocks[i].startLine
                            /\ cursorLine <= pyBlocks[i].endLine}
Width(i) == pyBlocks[i].endLine - pyBlocks[i].startLine
Narrowest(S) == CHOOSE i \in S : \A j \in S : Width(i) < Width(j) \/ (Width(i) = Width(j) /\ i <= j)
\* the label from the enclosing def, else from the enclosing class, else none
EnclosingLabel(cursorLine) ==
  IF BlocksAtCursor("def", cursorLine) # {}
  THEN Some(pyBlocks[Narrowest(BlocksAtCursor("def", cursorLine))].label)
  ELSE IF BlocksAtCursor("class", cursorLine) # {}
  THEN Some(pyBlocks[Narrowest(BlocksAtCursor("class", cursorLine))].name)
  ELSE Null
NoHeaderInRange(range) == HeadersInRange("class", range) \o HeadersInRange("def", range) = <<>>
\* the label when the selected text itself is the label in all three forms
SelectedTextAsLabel(range, normalized) ==
  NoHeaderInRange(range) =>
    /\ Len(strategyEntries) = 1
    /\ strategyEntries[1].label =
         IF \/ IsDottedChainText(normalized)
            \/ MatchClassHeader(normalized) # Null
            \/ IsIdentifierText(normalized)
         THEN Some(normalized)
         ELSE EnclosingLabel(range.startLine)
\* the label when a class header among the selected text gives the class name
LabelOrder(range, normalized) ==
  NoHeaderInRange(range) =>
    /\ Len(strategyEntries) = 1
    /\ strategyEntries[1].label =
         IF IsDottedChainText(normalized) \/ IsIdentifierText(normalized)
         THEN Some(normalized)
         ELSE IF MatchClassHeader(normalized) # Null
         THEN MatchClassHeader(normalized)
         ELSE EnclosingLabel(range.startLine)

\* C15 (as stated): with no block header in the selection's line range there
\* is exactly one entry, labelled with the normalized selected text when that
\* is a dotted identifier chain, a class header or a bare identifier, else
\* with the narrowest def block at the cursor line, else with the narrowest
\* class block there, else without label
C15_SelectedTextAsLabel ==
  Copied => SelectedTextAsLabel(EditorRange, normalizePythonSelectionText(Trim(SelectedText)))

\* C15 (amended): as stated, except that a selected text that begins with a
\* class header gives the class name as the label, not the selected text
C15_LabelOrder ==
  Copied =>
    /\ LabelOrder(EditorRange, normalizePythonSelectionText(Trim(SelectedText)))
    /\ NoHeaderInRange(EditorRange) => EntriesAt(EditorPath, EditorLineText)

\* the words class A selected inside a comment: the label is A
C15_Witness ==
  /\ Copied
  /\ editor.file.text = "# class A"
  /\ SelectedText = "class A"
  /\ EntryLabels = <<Some("A")>>

\* a cursor on the blank last line, which both a def and the def nested in it
\* hold: the inner def
C15_NarrowestDefWitness ==
  /\ Copied
  /\ editor.file.text = " def m():\n  def n():\n"
  /\ editor.anchor = 21 /\ editor.active = 21
  /\ EntryLabels = <<Some("n")>>

\* a dotted chain selected inside a method: the chain itself
C15_ChainWitness ==
  /\ Copied
  /\ editor.file.text = "class A:\n def m():\n  a.b"
  /\ SelectedText = "a.b"
  /\ EntryLabels = <<Some("a.b")>>

\* the blocks still open when block i is opened: the earlier blocks that do
\* not end before its header line
OpenAt(i) == {j \in 1..(i - 1) : pyBlocks[j].endLine >= pyBlocks[i].startLine}
OpenClassesAt(i) == {j \in OpenAt(i) : pyBlocks[j].type = "class"}
Innermost(S) == CHOOSE j \in S : \A k \in S : k <= j
DefBlocks == {i \in 1..Len(pyBlocks) : pyBlocks[i].type = "def"}

\* C20 (as stated): a def's label is ClassName.defName exactly when the
\* nearest block still open when the def is opened is a class, and the bare
\* name otherwise, a def nested directly in another def included
C20_NearestOpenBlock ==
  Copied =>
    \A i \in DefBlocks :
      pyBlocks[i].label =
        IF OpenAt(i) # {} /\ pyBlocks[Innermost(OpenAt(i))].type = "class"
        THEN pyBlocks[Innermost(OpenAt(i))].name \o "." \o pyBlocks[i].name
        ELSE pyBlocks[i].name

\* C20 (amended): a def's label is ClassName.defName exactly when some class
\* block is still open when the def is opened, ClassName being the innermost
\* such class, whether or not defs are open between the class and the def;
\* otherwise it is the bare name
C20_NearestOpenClass ==
  Copied =>
    \A i \in DefBlocks :
      pyBlocks[i].label =
        IF OpenClassesAt(i) # {}
        THEN pyBlocks[Innermost(OpenClassesAt(i))].name \o "." \o pyBlocks[i].name
        ELSE pyBlocks[i].name

\* a def nested directly in a method of class A: its label carries the class
C20_Witness ==
  /\ Copied
  /\ editor.file.text = "class A:\n def m():\n  def n():"
  /\ Len(pyBlocks) = 3
  /\ pyBlocks[2].label = "A.m"
  /\ pyBlocks[3].label = "A.n"

-----------------------------------------------------------------------------
(* Properties of the TS/JS strategy, checked under SpecTs                    *)

TsNodes == editor.file.sf.nodes
TsText(i) == Slice(editor.file.text, TsNodes[i].start, TsNodes[i].end)
\* the selection is exactly the text of node i
SelectionCovers(i) ==
  /\ editor.anchor = TsNodes[i].start
  /\ editor.active = TsNodes[i].end
  /\ editor.anchor < editor.active
\* the children of node i that its property `role` holds
Held(i, role) == {j \in 1..Len(TsNodes) : TsNodes[j].parent = i /\ TsNodes[j].role = role}
\* the variable declarations of the statement i that bind a simple name to an
\* arrow function or a function expression
FunctionVariablesOf(i) ==
  {d \in 1..Len(TsNodes) :
     /\ TsNodes[d].kind = "VariableDeclaration"
     /\ TsNodes[d].parent \in Held(i, "declarationList")
     /\ \E n \in Held(d, "name") : TsNodes[n].kind = "Identifier"
     /\ \E f \in Held(d, "initializer") : TsNodes[f].kind \in {"ArrowFunction", "FunctionExpression"}}
DeclaredName(d) == TsText(CHOOSE n \in Held(d, "name") : TRUE)

LiteralMembers ==
  {m \in 1..Len(TsNodes) :
     /\ TsNodes[m].kind \in {"MethodDeclaration", "PropertyAssignment"}
     /\ TsNodes[TsNodes[m].parent].kind = "ObjectLiteralExpression"}
MemberName(m) == TsText(CHOOSE n \in Held(m, "name") : TRUE)
\* the node that holds the object literal of member m
LiteralHolder(m) == TsNodes[TsNodes[m].parent].parent
LiteralRole(m) == TsNodes[TsNodes[m].parent].role
\* the literal of member m initialises a variable with a simple name
InitialisesVariable(m) ==
  /\ TsNodes[LiteralHolder(m)].kind = "VariableDeclaration"
  /\ LiteralRole(m) = "initializer"
  /\ \E n \in Held(LiteralHolder(m), "name") : TsNodes[n].kind = "Identifier"
\* the literal of member m is the right-hand side of an assignment to an
\* identifier or a property access
IsAssigned(m) ==
  /\ TsNodes[LiteralHolder(m)].kind = "BinaryExpression"
  /\ LiteralRole(m) = "right"
  /\ \E op \in Held(LiteralHolder(m), "operatorToken") : TsNodes[op].kind = "EqualsToken"
  /\ \E l \in Held(LiteralHolder(m), "left") :
       TsNodes[l].kind \in {"Identifier", "PropertyAccessExpression"}
OwnerText(m) ==
  IF InitialisesVariable(m) THEN TsText(CHOOSE n \in Held(LiteralHolder(m), "name") : TRUE)
  ELSE TsText(CHOOSE l \in Held(LiteralHolder(m), "left") : TRUE)

\* C17 (as stated): a method or property assignment of an object literal that
\* the selection covers is labelled owner.member when the literal initialises
\* a variable with a simple name or is assigned to an identifier or a property
\* access, and with the bare member name otherwise; for
\* const cfg = { build() {} } with build() {} selected the only label is
\* cfg.build
C17_OwnerOnlyWhenAssigned ==
  Copied =>
    \A m \in LiteralMembers :
      SelectionCovers(m) =>
        EntryLabels =
          <<Some(IF InitialisesVariable(m) \/ IsAssigned(m)
                 THEN OwnerText(m) \o "." \o MemberName(m)
                 ELSE MemberName(m))>>

\* a node that a classification rule gives a label
IsClassified(i) ==
  \/ TsNodes[i].kind \in {"FunctionDeclaration", "MethodDeclaration", "PropertyDeclaration",
                          "PropertyAssignment"}
  \/ /\ TsNodes[i].kind = "VariableDeclaration"
     /\ \E n \in Held(i, "name") : TsNodes[n].kind = "Identifier"
     /\ \E f \in Held(i, "initializer") : TsNodes[f].kind \in {"ArrowFunction", "FunctionExpression"}
\* the normalized selection start, which is the focus offset too, and end
SelectionStart == Min(editor.anchor, editor.active)
SelectionEnd == Max(editor.anchor, editor.active)
IntersectsSelection(i) == TsNodes[i].start <= SelectionEnd /\ SelectionStart <= TsNodes[i].end
\* the nodes that hold the focus offset
EnclosingNodes ==
  {i \in 1..Len(TsNodes) : TsNodes[i].start <= SelectionStart /\ SelectionStart <= TsNodes[i].end}
TsWidth(i) == TsNodes[i].end - TsNodes[i].start
\* the narrowest of them, the first visited among equals
NarrowestEnclosing ==
  CHOOSE i \in EnclosingNodes :
    \A j \in EnclosingNodes : TsWidth(i) < TsWidth(j) \/ (TsWidth(i) = TsWidth(j) /\ i <= j)
RECURSIVE SelfAndAncestors(_)
SelfAndAncestors(i) == IF i = 0 THEN {} ELSE {i} \cup SelfAndAncestors(TsNodes[i].parent)
\* the nodes on the way outward that give a label; the first of them is the
\* one visited last, parents being visited before their children
LabelGivers ==
  {a \in SelfAndAncestors(NarrowestEnclosing) :
     TsNodes[a].kind = "PropertyAccessExpression" \/ IsClassified(a)}
FallbackLabel ==
  IF LabelGivers = {} THEN Null
  ELSE IF TsNodes[Innermost(LabelGivers)].kind = "PropertyAccessExpression"
  THEN Some(TsText(Innermost(LabelGivers)))
  ELSE getTypeScriptEntryFromNode(editor.file.sf, Innermost(LabelGivers), "", "")[1].label

\* C18: when no classified node intersects the selection and some node holds
\* the focus offset, there is exactly one entry; its label is the source text
\* of the first property access, or the label of the first classified node,
\* met on the way from the narrowest such node outward, and absent when
\* there is neither
C18_EnclosingFallback ==
  (/\ Copied
   /\ \A i \in 1..Len(TsNodes) : ~(IntersectsSelection(i) /\ IsClassified(i))
   /\ EnclosingNodes # {}) =>
    /\ Len(strategyEntries) = 1
    /\ strategyEntries[1].relativePath = EditorPath
    /\ strategyEntries[1].lineText = EditorLineText
    /\ strategyEntries[1].label = FallbackLabel

\* the cursor before the o of o.p(1): the narrowest node is the identifier, the
\* label comes from the property access around it
C18_Witness ==
  /\ Copied
  /\ editor.file.text = "o.p(1);"
  /\ editor.anchor = 0 /\ editor.active = 0
  /\ TsNodes[NarrowestEnclosing].kind = "Identifier"
  /\ EntryLabels = <<Some("o.p")>>

\* the cursor before u || { k: 1 }: no property access on the way outward
C18_NoLabelWitness ==
  /\ Copied
  /\ editor.file.text = "u || { k: 1 };"
  /\ editor.anchor = 0 /\ editor.active = 0
  /\ EntryLabels = <<Null>>

-----------------------------------------------------------------------------
(* Properties of the favorites manager, checked under SpecFav                *)

Occupied(data) == {i \in SlotIndexes : data[i] # NoSlot}
LowestEmpty(data) == CHOOSE i \in SlotIndexes \ Occupied(data) :
                       \A j \in SlotIndexes \ Occupied(data) : i <= j
\* there are exactly five slots, and no two taken slots hold the same path
FiveSlotsNoDuplicate ==
  /\ Cardinality(DOMAIN slots) = 5
  /\ \A i, j \in Occupied(slots) : slots[i][1].path = slots[j][1].path => i = j
\* a step that is an addFavorite call refuses a stored path and a full set of
\* slots, changing no slot, and else puts the folder in the lowest empty slot
AddStep ==
  lastCall'[1] = "add" =>
    IF \/ \E i \in Occupied(slots) : slots[i][1].path = lastCall'[2]
       \/ Occupied(slots) = SlotIndexes
    THEN addResult' = FALSE /\ slots' = slots
    ELSE /\ addResult' = TRUE
         /\ slots'[LowestEmpty(slots)] # NoSlot
         /\ slots'[LowestEmpty(slots)][1].path = lastCall'[2]
         /\ \A i \in SlotIndexes \ {LowestEmpty(slots)} : slots'[i] = slots[i]

\* C19: after any sequence of addFavorite and removeFavorite calls from empty
\* storage the manager has exactly 5 slots and no two occupied slots hold the
\* same path; adding a stored path, or adding when all 5 slots are taken,
\* returns false and changes no slot; a successful add fills the lowest-index
\* empty slot
C19_SlotsAndAdds == []FiveSlotsNoDuplicate /\ [][AddStep]_vars

\* all five slots are taken, two of them by folders of the same name in
\* different directories, and the last add was refused
C19_Witness ==
  /\ lastCall[1] = "add" /\ addResult = FALSE
  /\ Occupied(slots) = SlotIndexes
  /\ slots[0][1].path = "/w/a" /\ slots[1][1].path = "/v/a"

(***************************************************************************)
(* The nesting of the blocks parsePythonBlocks returns, checked under      *)
(* SpecPy                                                                  *)
(***************************************************************************)
\* the line range of a lies inside that of b
RangeInside(a, b) == b.startLine <= a.startLine /\ a.endLine <= b.endLine
\* the line ranges of a and b share no line
RangesDisjoint(a, b) == a.endLine < b.startLine \/ b.endLine < a.startLine
BlocksFormTree(blocks) ==
  /\ \A i \in 1..Len(blocks) : blocks[i].startLine <= blocks[i].endLine
  /\ \A i, j \in 1..Len(blocks) :
       \/ RangesDisjoint(blocks[i], blocks[j])
       \/ RangeInside(blocks[i], blocks[j])
       \/ RangeInside(blocks[j], blocks[i])

\* C21: the blocks parsePythonBlocks returns form a tree by nesting of line
\* ranges: every block has startLine <= endLine, and the ranges of any two
\* blocks are disjoint or one contains the other
C21_BlocksFormTree == Copied => BlocksFormTree(pyBlocks)

\* a def nested in a def, both closed by a class at the margin: one pair of
\* nested ranges and two pairs of disjoint ones
C21_Witness ==
  /\ Copied
  /\ editor.file.text = " def m():\n  def n():\nclass A:"
  /\ Len(pyBlocks) = 3
  /\ RangeInside(pyBlocks[2], pyBlocks[1])
  /\ pyBlocks[1].endLine = 1
  /\ RangesDisjoint(pyBlocks[1], pyBlocks[3])
  /\ RangesDisjoint(pyBlocks[2], pyBlocks[3])

-----------------------------------------------------------------------------
(* Properties of render's text handling, checked under SpecPre             *)

\* some element of the stack is pre, code or textarea
HasPreserving(stack) == \E k \in 1..Len(stack) : isPreserveWhitespaceElement(stack[k])
\* the text as the claim has it written: as it is under a whitespace-preserving
\* element, newline-escaped elsewhere
WrittenText(text, stack) == IF HasPreserving(stack) THEN text ELSE escapeNewlines(text)
\* render is at a text token that is not blank
AtText == phase = "render" /\ ri <= Len(tokens) /\ tokens[ri].type = "text"
          /\ Trim(tokens[ri].content) # ""
\* render is at a start tag it writes on one line with its text and end tag
AtCollapse == phase = "render" /\ ri <= Len(tokens) /\ tokens[ri].type = "startTag"
              /\ ~tokens[ri].selfClosing /\ Collapses(tokens, ri)
C22_Step ==
  /\ (AtText /\ ri' # ri) =>
       lines' = Append(lines, Repeat(INDENT, depth)
                                \o WrittenText(Trim(tokens[ri].content), tagStack))
  /\ (AtCollapse /\ ri' # ri) =>
       lines' = Append(lines, Repeat(INDENT, depth) \o TagStr(tokens[ri])
                                \o WrittenText(Trim(tokens[ri + 1].content),
                                               Append(tagStack, tokens[ri].tagName))
                                \o "</" \o tokens[ri].tagName \o ">")

\* C22: render newline-escapes text (LF to &#10;, CR to &#13;) exactly when no
\* element of the open-element stack around it is pre, code or textarea; text
\* under such an element, the text of a descendant written on one line
\* included, is written as it is
C22_VerbatimUnderPreserve == [][C22_Step]_vars

-----------------------------------------------------------------------------
(* Properties of render's lines and depth, checked under SpecHtml          *)

\* render is at a token of the type
RenderAt(type) == phase = "render" /\ ri <= Len(tokens) /\ tokens[ri].type = type
C23_Step ==
  ((RenderAt("doctype") \/ RenderAt("comment")) /\ ri' # ri) =>
    lines' = Append(lines, Repeat(INDENT, depth) \o tokens[ri].content)

\* C23: every doctype token and every comment token is written as one line of
\* its own, behind two spaces per level of the current depth
C23_OwnLineAtDepth == [][C23_Step]_vars

C24_Step ==
  /\ (RenderAt("endTag") /\ ri' # ri) =>
       /\ depth' = Max(0, depth - 1)
       /\ lines' = Append(lines, Repeat(INDENT, depth') \o "</" \o tokens[ri].tagName \o ">")
  \* every iteration takes at least one token and never reads past the last
  /\ (phase = "render" /\ ri' # ri) => (ri' > ri /\ ri' <= Len(tokens) + 1)

\* C24: whatever the tokens, unmatched and surplus close tags included, the
\* depth is never below 0; an end tag first takes one from the depth, not
\* below 0, and is written at the depth that gives; the loop of render moves
\* forward over the tokens to its end
C24_DepthNeverNegative == [](depth >= 0) /\ [][C24_Step]_vars

\* </p></p><p>: two close tags with nothing open, written at depth 0, and an
\* open tag left unclosed
C24_Witness ==
  /\ phase = "done"
  /\ pass = 1
  /\ src = <<CloseTag("p"), CloseTag("p"), OpenTag("p")>>
  /\ lines = <<"</p>", "</p>", "<p>">>
  /\ depth = 1

-----------------------------------------------------------------------------
(* Properties of void, self-closed and raw-text tags, checked under        *)
(* SpecMarkup                                                              *)

\* tokenize is at a '<' followed by a letter, with a '>' somewhere after it:
\* a start tag
AtStartTag == phase = "tokenize" /\ pos < Len(html) /\ At(html, pos) = "<"
              /\ IsLetter(At(html, pos + 1)) /\ IndexOf(html, ">", pos + 1) # -1
\* the text of the start tag at the cursor, from '<' to the first '>'
TagText == Slice(html, pos, IndexOf(html, ">", pos + 1) + 1)
\* its name, lower-cased
TagName == ToLower(Slice(html, pos + 1, NameEnd(html, pos + 1)))
WrittenSelfClosed == Slice(TagText, Len(TagText) - 2, Len(TagText)) = "/>"
C25_Step ==
  /\ (AtStartTag /\ (TagName \in VOID_ELEMENTS \/ WrittenSelfClosed)) =>
       /\ Len(tokens') = Len(tokens) + 1
       /\ tokens'[Len(tokens')].type = "startTag"
       /\ tokens'[Len(tokens')].tagName = TagName
       /\ tokens'[Len(tokens')].selfClosing
       /\ pos' = pos + Len(TagText)
  /\ (RenderAt("startTag") /\ tokens[ri].selfClosing /\ ri' # ri) =>
       /\ lines' = Append(lines, Repeat(INDENT, depth) \o TagStr(tokens[ri]))
       /\ Len(TagStr(tokens[ri])) >= 2
       /\ Slice(TagStr(tokens[ri]), Len(TagStr(tokens[ri])) - 2, Len(TagStr(tokens[ri]))) = "/>"
       /\ depth' = depth
       /\ tagStack' = tagStack
       /\ ri' = ri + 1

\* C25: a start tag whose lower-cased name is a void element, with or without
\* a '/' before its '>', and any start tag written with '/>' becomes a
\* selfClosing token; render writes it as one line at the current depth and
\* leaves the depth as it is
C25_SelfClosingKeepsDepth == [][C25_Step]_vars

\* <p><BR><p/>: the void tag in capitals and the self-closed p are written one
\* level inside the open p, and the depth is still 1 after them
C25_Witness ==
  /\ phase = "done"
  /\ pass = 1
  /\ src = <<"<p>", "<BR>", "<p/>">>
  /\ lines = <<"<p>", "  <br />", "  <p />">>
  /\ depth = 1

\* tokenize is at a style or script start tag not written with '/>'
AtRawStart == AtStartTag /\ TagName \in RAW_TEXT_ELEMENTS /\ ~WrittenSelfClosed
\* a close tag of the name begins at offset c: '</', the name in any case,
\* blanks, '>'
CloseTagAt(c, name) ==
  /\ ToLower(Slice(html, c, c + 2 + Len(name))) = "</" \o name
  /\ At(html, SkipSpaces(html, c + 2 + Len(name))) = ">"
\* the offsets after the start tag at the cursor where its close tag begins
CloseOffsets(bodyStart, name) == {c \in bodyStart..Len(html) : CloseTagAt(c, name)}
\* the token and the cursor the claim gives for the raw-text start tag whose
\* name and attribute text are given and whose body begins at bodyStart
RawTextOutcome(name, attrText, bodyStart, closes) ==
  IF closes # {}
  THEN [token |-> RawTextTok(name, normalizeAttributes(attrText),
                             Slice(html, bodyStart, Least(closes))),
        pos |-> SkipSpaces(html, Least(closes) + 2 + Len(name)) + 1]
  ELSE [token |-> StartTagTok(name, normalizeAttributes(attrText), FALSE),
        pos |-> bodyStart]
C26_Step ==
  AtRawStart =>
    LET outcome == RawTextOutcome(TagName,
                                  Slice(TagText, 1 + Len(TagName), Len(TagText) - 1),
                                  pos + Len(TagText),
                                  CloseOffsets(pos + Len(TagText), TagName))
    IN /\ tokens' = Append(tokens, outcome.token)
       /\ pos' = outcome.pos
       /\ phase' = "tokenize"

\* C26: a style or script start tag that is not self-closed gives exactly one
\* rawText token with the tag name, its attributes and the untouched text up
\* to the first close tag of that name in any case, and tokenize goes on right
\* after that close tag; with no such close tag it gives an ordinary startTag
\* token and goes on right after the start tag
C26_RawTextToken == [][C26_Step]_vars

\* <script><p></SCRIPT >: the p inside the body gives no token
C26_Witness ==
  /\ phase = "render"
  /\ pass = 1
  /\ src = <<"<script>", "<p>", "</SCRIPT >">>
  /\ tokens = <<RawTextTok("script", "", "<p>")>>
  /\ pos = Len(html)

\* <STYLE a><p>: no close tag, so a start tag named style and then the p
C26_NoCloseWitness ==
  /\ phase = "render"
  /\ pass = 1
  /\ src = <<"<STYLE a>", "<p>">>
  /\ tokens = <<StartTagTok("style", "a", FALSE), StartTagTok("p", "", FALSE)>>

-----------------------------------------------------------------------------
(* Properties of overlapping invocations, checked under SpecCmd            *)

\* an invocation is in its tree walk
Walking(i) == calls[i].pc = "walk"
\* the module variable is null whenever no walk is under way, and refers to
\* the walking invocation's own state otherwise
OwnStateOrNull ==
  /\ (\A i \in Invocations : ~Walking(i)) => currentTsTraversalState = 0
  /\ \A i \in Invocations : Walking(i) => currentTsTraversalState = i
\* at most one invocation walks, and it is the one executing
OneWalker ==
  \A i \in Invocations : Walking(i) => running = i
\* the text an invocation built is the text it builds when it runs alone
TextAsAlone ==
  \A i \in Invocations :
    calls[i].pc \in {"await", "done"} =>
      calls[i].text =
        formatEntries(WithFallback(
          addTypeScriptEntries(calls[i].editor.file.fileName, CallLineText(calls[i]),
                               calls[i].editor.file.sf,
                               CallSelection(calls[i]).startOffset,
                               CallSelection(calls[i]).endOffset,
                               CallSelection(calls[i]).startOffset),
          calls[i].editor.file.fileName, CallLineText(calls[i])))
\* a step changes the record of one invocation only, and the traversal state
\* of an invocation changes only in a step of its own walk
C27_Step ==
  /\ \A i, j \in Invocations :
       (calls'[i] # calls[i] /\ calls'[j] # calls[j]) => i = j
  /\ \A i \in Invocations :
       calls'[i].state # calls[i].state =>
         \/ calls[i].pc = "idle" /\ calls'[i].pc = "walk"
         \/ Walking(i) /\ running = i /\ calls'[i].node = calls[i].node + 1

\* C27: invocations of reference generation share no mutable state: every
\* step of a tree walk reads and writes the traversal state its own
\* invocation made, the module variable is null whenever no walk is under way
\* (so at every await), and an invocation's result is what it is without the
\* others
C27_NoSharedTraversalState ==
  []OwnStateOrNull /\ []OneWalker /\ []TextAsAlone /\ [][C27_Step]_vars

\* the second invocation has walked its tree while the first awaits the
\* clipboard: each holds the text for its own editor
C27_Witness ==
  /\ calls[1].pc = "await"
  /\ calls[2].pc = "await"
  /\ calls[1].editor # calls[2].editor
  /\ calls[1].text = "b.js:2 f"
  /\ calls[2].text = "b.js:3 o.p"
  /\ currentTsTraversalState = 0

-----------------------------------------------------------------------------
(* Properties of the manage command, checked under SpecBar                 *)

\* the items without the one whose path is given
WithoutPath(list, p) == SelectSeq(list, LAMBDA item : item.path # p)
\* a manage command whose quick pick is open gets the user's choice
Picks(c) == quickPick[c].pc = "open" /\ quickPick'[c].selected # Null
C28_Step ==
  \A c \in ManageCalls :
    Picks(c) => items' = WithoutPath(items, quickPick'[c].selected[1].description)

\* C28: the favorite the manage command removes is the one whose path the
\* picked entry showed, whatever add and remove commands have completed while
\* the quick pick was open
C28_RemovesThePicked == [][C28_Step]_vars

-----------------------------------------------------------------------------
(* The enclosing-candidate fallback of the TS/JS strategy, checked under    *)
(* SpecTs                                                                  *)

\* the traversal state visitTsNode leaves for the editor's file and selection
WalkedState ==
  visitTsNode(editor.file.sf, 1, NewTraversal, SelectionStart, SelectionEnd, SelectionStart,
              EditorPath, "")
\* addTypeScriptEntries takes the fallback after a walk that left state st
TakesFallback(st) == Len(st.entries) = 0 /\ st.enclosingCandidate # 0
\* the source texts of the property accesses among the nodes
AccessTexts(nodes) ==
  {Some(TsText(a)) : a \in {n \in nodes : TsNodes[n].kind = "PropertyAccessExpression"}}
FallbackIsAccess(st) ==
  TakesFallback(st) =>
    /\ Len(strategyEntries) = 1
    /\ strategyEntries[1].label \in {Null} \cup AccessTexts(SelfAndAncestors(st.enclosingCandidate))
    /\ \A a \in SelfAndAncestors(st.enclosingCandidate) :
         /\ TsNodes[a].start <= SelectionStart /\ SelectionStart <= TsNodes[a].end
         /\ IntersectsSelection(a)
         /\ ~IsClassified(a)

\* C29: when the TS/JS strategy takes its enclosing-candidate fallback, the
\* label of the one entry is absent or the source text of a property access:
\* the candidate and each of its ancestors holds the focus offset, so it
\* intersects the selection, and none of them is a node the classification
\* rules give an entry
C29_FallbackOnlyAccess == Copied => FallbackIsAccess(WalkedState)

\* the cursor in the p of o.p(1): the walk gave no entry, and the label is the
\* text of the property access around the identifier
C29_Witness ==
  /\ Copied
  /\ editor.file.text = "o.p(1);"
  /\ editor.anchor = 2 /\ editor.active = 2
  /\ TakesFallback(WalkedState)
  /\ EntryLabels = <<Some("o.p")>>

-----------------------------------------------------------------------------
(* Properties of the tokenizer of src/unnamed/part_001, checked under       *)
(* SpecAlt                                                                  *)

\* the iteration at cursor p leaves the loop or moves the cursor forward,
\* not past the end of the text
Advances(it, p) == it.brk \/ (it.pos > p /\ it.pos <= Len(html))

\* C30: in the revision of src/unnamed/part_001 every iteration of tokenize
\* moves the cursor forward (or leaves the loop), also at a '<' that starts no
\* comment, doctype, end tag or start tag, so tokenize ends on every text
C30_AltAdvances ==
  (phase = "tokenize" /\ pos < Len(html)) => Advances(AltTokenizeIteration(html, pos), pos)
====
